---- MODULE Spec2Model ----
(***************************************************************************)
(* State-machine model of the InspectionPwa realtime core:                 *)
(*   - GeminiLiveClient (src/js/gemini-live-client.js): connection         *)
(*     lifecycle, handshake, retry/backoff, readiness-gated sends,         *)
(*     inbound dispatch;                                                   *)
(*   - AudioManager playback queue (src/unnamed/part_000);                 *)
(*   - the App handlers that drive them (src/unnamed/part_002).            *)
(*                                                                         *)
(* The JavaScript event loop runs one reaction at a time, so every action  *)
(* below is one whole reaction (a public call, a socket event, a timer     *)
(* callback, an 'ended' callback).  The callback fields (onRetry, onError, *)
(* ...) are observed: what a reaction fired is recorded in obs.fired.      *)
(* Time is abstracted: a pending timer may fire at any later reaction.     *)
(***************************************************************************)
EXTENDS Integers, Sequences, FiniteSets, TLC

VARIABLES
    gemini,   \* the GeminiLiveClient fields
    socket,   \* the WebSocket object held in gemini.ws, as the browser sees it
    timers,   \* pending setTimeout timers of the client
    audio,    \* the AudioManager playback fields
    speaker,  \* the output device: sources rendering, 'ended' events due
    app,      \* the App fields
    obs,      \* what the last reaction did (operation, callbacks fired, sends)
    hist,     \* history of the client needed to state the claims
    phist,    \* history of the playback queue needed to state the claims
    vhist,    \* history of the voice-activity detector needed to state the claims
    dsp       \* the argument and results of a sample-conversion function applied

vars == <<gemini, socket, timers, audio, speaker, app, obs, hist, phist, vhist, dsp>>

(***************************************************************************)
(* Bounds of the exploration.                                              *)
(***************************************************************************)
MaxConnects == 2
MaxRetriesArg == 3
MaxSetups == 2
MaxChunks == 3
MaxSamples == 6
MaxPending == 2
MaxSessions == 1
MaxAppChunks == 2

(***************************************************************************)
(* Program constants.                                                      *)
(***************************************************************************)
DefaultMaxRetries == 3

\* CONFIG.VAD_THRESHOLD (0.01) and the energy samples are in thousandths.
VAD_THRESHOLD == 10
VAD_CONSECUTIVE_FRAMES == 3

(***************************************************************************)
(* JavaScript values that reach maxRetries: connect(maxRetries) is called  *)
(* with a number by a direct caller and with the stored API key (a string) *)
(* by App.start.                                                           *)
(***************************************************************************)
Num(n) == [isNum |-> TRUE, num |-> n, str |-> ""]
Str(s) == [isNum |-> FALSE, num |-> 0, str |-> s]

StoredApiKeys == {"", "AIzaSyKey", "2"}

\* ToNumber of a string: a decimal literal converts, anything else is NaN.
IsDecimal(s) == s \in {"0", "1", "2", "3"}
DecimalValue(s) == CASE s = "0" -> 0 [] s = "1" -> 1 [] s = "2" -> 2 [] OTHER -> 3

\* a < v as JavaScript evaluates it for a number a: v is converted with
\* ToNumber and any comparison with NaN is false.
JsLess(a, v) ==
    IF v.isNum THEN a < v.num
    ELSE IF IsDecimal(v.str) THEN a < DecimalValue(v.str)
    ELSE FALSE

\* v + 1 as JavaScript evaluates it: addition for a number, concatenation
\* for a string.
JsPlus1(v) == IF v.isNum THEN Num(v.num + 1) ELSE Str(v.str \o "1")

(***************************************************************************)
(* Observations.                                                           *)
(***************************************************************************)
Note(name, tag, a, b, s) == [name |-> name, tag |-> tag, a |-> a, b |-> b, s |-> s]

NoEvent == [code |-> "", reason |-> ""]

\* obs.msg when the reaction was not the delivery of a message.
NoMessage == [parses |-> FALSE]

NoSocket == [readyState |-> "NONE"]
NewSocket == [readyState |-> "CONNECTING"]

World == [g |-> gemini, sock |-> socket, tm |-> timers, ob |-> obs, h |-> hist]

\* A reaction starts with an empty record of what it did.
Begin(w, op) ==
    [w EXCEPT !.ob = [lastOp |-> op, fired |-> <<>>, sent |-> <<>>, attempted |-> FALSE,
                      event |-> NoEvent, errored |-> FALSE, msg |-> NoMessage]]

Fire(w, n) == [w EXCEPT !.ob.fired = Append(@, n)]

\* The scenario "one connect() on a quiescent client, no transport opened
\* since" is over: forget its history.
Impure(h) ==
    [h EXCEPT !.pure = FALSE, !.viaApp = FALSE, !.delays = <<>>, !.attempts = 0,
              !.errors = 0, !.lastFail = "", !.errReason = ""]

(***************************************************************************)
(* GeminiLiveClient helpers.                                               *)
(***************************************************************************)
\* Variant that leaves the establishment timer running.
ClearConnectionTimeoutNever(w) == w

ClearConnectionTimeout(w) ==
    IF w.g.connectionTimeout
    THEN [w EXCEPT !.tm.timeout = FALSE, !.g.connectionTimeout = FALSE]
    ELSE w

CleanupConnection(w) ==
    LET w1 == ClearConnectionTimeout(w)
    IN  IF w1.g.ws # "null"
        THEN [w1 EXCEPT !.g.ws = "null", !.sock = NoSocket,
                        !.h.wsSetups = 0, !.h.wsFirst = "", !.h.dropped = FALSE,
                        !.h.wsSetupsSent = 0]
        ELSE w1

DelayMutant(retryCount) == (2 ^ retryCount) * 1000

Delay(retryCount) == (2 ^ (retryCount + 1)) * 1000

\* A retry test that allows one re-attempt more than maxRetries.
HandleRetryOneMore(w, reason) ==
    IF JsLess(w.g.retryCount - 1, w.g.maxRetries)
    THEN LET delay == Delay(w.g.retryCount)
             w1 == [w EXCEPT !.g.retryCount = @ + 1]
             w2 == Fire(w1, Note("onRetry", "", w1.g.retryCount, w1.g.maxRetries, reason))
         IN  [w2 EXCEPT !.tm.retry = Append(@, delay),
                        !.h.delays = IF w.h.pure THEN Append(@, delay) ELSE @]
    ELSE LET w1 == Fire(w, Note("onError", "ConnectionFailed", 0, w.g.maxRetries, reason))
         IN  [w1 EXCEPT !.h.errors = IF w.h.pure THEN @ + 1 ELSE @,
                        !.h.errReason = IF w.h.pure THEN reason ELSE @]

HandleRetry(w, reason) ==
    IF JsLess(w.g.retryCount, w.g.maxRetries)
    THEN LET delay == Delay(w.g.retryCount)
             w1 == [w EXCEPT !.g.retryCount = @ + 1]
             w2 == Fire(w1, Note("onRetry", "", w1.g.retryCount, w1.g.maxRetries, reason))
         IN  [w2 EXCEPT !.tm.retry = Append(@, delay),
                        !.h.delays = IF w.h.pure THEN Append(@, delay) ELSE @]
    ELSE LET w1 == Fire(w, Note("onError", "ConnectionFailed", 0, w.g.maxRetries, reason))
         IN  [w1 EXCEPT !.h.errors = IF w.h.pure THEN @ + 1 ELSE @,
                        !.h.errReason = IF w.h.pure THEN reason ELSE @]

\* A send that does not look at the state of the socket.
SendUnchecked(w, kind) ==
    IF w.g.ws = "null"
    THEN w
    ELSE [w EXCEPT !.ob.sent = Append(@, kind),
                   !.h.wsFirst = IF @ = "" THEN kind ELSE @,
                   !.h.wsSetupsSent = IF kind = "setup" THEN @ + 1 ELSE @]

\* _send: dropped unless a socket is held and it is OPEN.
Send(w, kind) ==
    IF w.g.ws = "null" \/ w.sock.readyState # "OPEN"
    THEN w
    ELSE [w EXCEPT !.ob.sent = Append(@, kind),
                   !.h.wsFirst = IF @ = "" THEN kind ELSE @,
                   !.h.wsSetupsSent = IF kind = "setup" THEN @ + 1 ELSE @]

SendSetupMessage(w) == Send(w, "setup")

\* The constructor of WebSocket may throw (ctorThrows); then this.ws stays
\* null and the catch block enters the retry path.
AttemptConnection(w, ctorThrows) ==
    LET w1 == IF w.g.ws # "null" THEN CleanupConnection(w) ELSE w
        w2 == Fire(w1, Note("onConnecting", "", w1.g.retryCount + 1,
                            JsPlus1(w1.g.maxRetries), ""))
        w3 == [w2 EXCEPT !.g.connectionTimeout = TRUE, !.tm.timeout = TRUE,
                         !.ob.attempted = TRUE,
                         !.h.attempts = IF w.h.pure THEN @ + 1 ELSE @]
    IN  IF ctorThrows
        THEN HandleRetry([ClearConnectionTimeout(w3) EXCEPT
                             !.h.lastFail = IF w.h.pure THEN "SecurityError" ELSE @],
                         "SecurityError")
        ELSE [w3 EXCEPT !.g.ws = "ws", !.sock = NewSocket,
                        !.h.wsSetups = 0, !.h.wsFirst = "", !.h.dropped = FALSE,
                        !.h.wsSetupsSent = 0]

\* An open handler that leaves the handshake to the caller.
WsOnOpenNoSetup(w) ==
    [ClearConnectionTimeout(w) EXCEPT !.g.isConnected = TRUE, !.g.retryCount = 0]

WsOnOpen(w) ==
    LET w1 == ClearConnectionTimeout(w)
        w2 == [w1 EXCEPT !.g.isConnected = TRUE, !.g.retryCount = 0]
    IN  SendSetupMessage(w2)

\* An error handler that enters the retry path itself.
WsOnErrorRetrying(w) == HandleRetry(ClearConnectionTimeout(w), "WebSocket error")

WsOnError(w) == ClearConnectionTimeout(w)

CloseEvents == {[code |-> "1006", reason |-> ""], [code |-> "1011", reason |-> "internal error"]}

CloseReason(ev) ==
    IF ev.reason # "" THEN ev.reason ELSE "Connection closed (code: " \o ev.code \o ")"

WasConnectedMutant(w) == FALSE

WasConnected(w) == w.g.isConnected

WsOnClose(w, ev) ==
    LET w1 == ClearConnectionTimeout(w)
        wasConnected == WasConnected(w1)
        w2 == [w1 EXCEPT !.g.isConnected = FALSE, !.g.isSetupComplete = FALSE,
                         !.h.setupSeen = FALSE]
    IN  IF wasConnected
        THEN Fire(w2, Note("onDisconnected", ev.code, 0, Num(0), ev.reason))
        ELSE HandleRetry(w2, CloseReason(ev))

(***************************************************************************)
(* Inbound messages.  A message either fails JSON.parse or is an object    *)
(* with any of setupComplete, serverContent, error.                        *)
(***************************************************************************)
PartKinds == {"audio", "text", "both"}
PartSeqs == {<<>>, <<"audio">>, <<"text", "audio">>, <<"both">>}

NoContent ==
    [present |-> FALSE, interrupted |-> FALSE, hasModelTurn |-> FALSE, parts |-> <<>>,
     outputTranscription |-> FALSE, inputTranscription |-> FALSE, turnComplete |-> FALSE]

Contents ==
    {NoContent} \cup
    [present : {TRUE}, interrupted : BOOLEAN, hasModelTurn : {TRUE}, parts : PartSeqs,
     outputTranscription : BOOLEAN, inputTranscription : BOOLEAN, turnComplete : BOOLEAN]

\* message.error.message as the server supplied it ("" when it supplied none).
ErrorTexts == {"", "Quota exceeded"}

\* A payload that fails JSON.parse.
Malformed ==
    [parses |-> FALSE, setupComplete |-> FALSE, serverContent |-> NoContent, error |-> FALSE,
     errorMessage |-> ""]

Messages ==
    {m \in [parses : {TRUE}, setupComplete : BOOLEAN, serverContent : Contents,
            error : BOOLEAN, errorMessage : ErrorTexts] : ~m.error => m.errorMessage = ""}
    \cup {Malformed}

\* The messages of a session as far as the connection lifecycle can tell them
\* apart: the handshake acknowledgement, an audio answer, a server error, a
\* malformed payload, and their combinations.
AudioContent ==
    [present |-> TRUE, interrupted |-> FALSE, hasModelTurn |-> TRUE, parts |-> <<"audio">>,
     outputTranscription |-> FALSE, inputTranscription |-> FALSE, turnComplete |-> TRUE]

SessionMessages == {m \in Messages : m.serverContent \in {NoContent, AudioContent}}

\* The handshake acknowledgement.
SetupCompleteMessages ==
    {m \in Messages : m.parses /\ m.setupComplete /\ m.serverContent = NoContent /\ ~m.error}

\* A loop body that reports the text of a part before its audio.
RECURSIVE FirePartsTextFirst(_, _)
FirePartsTextFirst(w, parts) ==
    IF parts = <<>> THEN w
    ELSE LET p == Head(parts)
             w1 == IF p \in {"text", "both"}
                   THEN Fire(w, Note("onTextResponse", "", 0, Num(0), "text"))
                   ELSE w
             w2 == IF p \in {"audio", "both"}
                   THEN Fire(w1, Note("onAudioResponse", "", 0, Num(0), "pcm"))
                   ELSE w1
         IN  FirePartsTextFirst(w2, Tail(parts))

RECURSIVE FireParts(_, _)
FireParts(w, parts) ==
    IF parts = <<>> THEN w
    ELSE LET p == Head(parts)
             w1 == IF p \in {"audio", "both"}
                   THEN Fire(w, Note("onAudioResponse", "", 0, Num(0), "pcm"))
                   ELSE w
             w2 == IF p \in {"text", "both"}
                   THEN Fire(w1, Note("onTextResponse", "", 0, Num(0), "text"))
                   ELSE w1
         IN  FireParts(w2, Tail(parts))

\* Variant without the return after onInterrupted.
HandleServerContentFallThrough(w, c) ==
    LET w0 == IF c.interrupted THEN Fire(w, Note("onInterrupted", "", 0, Num(0), "")) ELSE w
        w1 == IF c.hasModelTurn THEN FireParts(w0, c.parts) ELSE w0
        w2 == IF c.outputTranscription
              THEN Fire(w1, Note("onTranscript", "ai", 0, Num(0), "text"))
              ELSE w1
        w3 == IF c.inputTranscription
              THEN Fire(w2, Note("onTranscript", "user", 0, Num(0), "text"))
              ELSE w2
    IN  IF c.turnComplete
        THEN Fire(w3, Note("onTurnComplete", "", 0, Num(0), ""))
        ELSE w3

\* Variant that treats the two transcription fields as alternatives.
HandleServerContentEitherTranscript(w, c) ==
    IF c.interrupted
    THEN Fire(w, Note("onInterrupted", "", 0, Num(0), ""))
    ELSE LET w1 == IF c.hasModelTurn THEN FireParts(w, c.parts) ELSE w
             w2 == IF c.outputTranscription
                   THEN Fire(w1, Note("onTranscript", "ai", 0, Num(0), "text"))
                   ELSE IF c.inputTranscription
                   THEN Fire(w1, Note("onTranscript", "user", 0, Num(0), "text"))
                   ELSE w1
         IN  IF c.turnComplete
             THEN Fire(w2, Note("onTurnComplete", "", 0, Num(0), ""))
             ELSE w2

HandleServerContent(w, c) ==
    IF c.interrupted
    THEN Fire(w, Note("onInterrupted", "", 0, Num(0), ""))
    ELSE LET w1 == IF c.hasModelTurn THEN FireParts(w, c.parts) ELSE w
             w2 == IF c.outputTranscription
                   THEN Fire(w1, Note("onTranscript", "ai", 0, Num(0), "text"))
                   ELSE w1
             w3 == IF c.inputTranscription
                   THEN Fire(w2, Note("onTranscript", "user", 0, Num(0), "text"))
                   ELSE w2
         IN  IF c.turnComplete
             THEN Fire(w3, Note("onTurnComplete", "", 0, Num(0), ""))
             ELSE w3

\* The body of _handleMessage after JSON.parse returned.
HandleParsed(w, m) ==
    IF m.setupComplete
    THEN LET w1 == [w EXCEPT !.g.isSetupComplete = TRUE, !.h.setupSeen = TRUE,
                             !.h.wsSetups = @ + 1]
             w2 == Fire(w1, Note("onSetupComplete", "", 0, Num(0), ""))
         IN  Fire(w2, Note("onConnected", "", 0, Num(0), ""))
    ELSE LET w1 == IF m.serverContent.present
                   THEN HandleServerContent(w, m.serverContent)
                   ELSE w
         IN  IF m.error
             THEN Fire(w1, Note("onError", "Server", 0, Num(0),
                                IF m.errorMessage # "" THEN m.errorMessage ELSE "Server error"))
             ELSE w1

\* Variant that surfaces a parse failure to the caller.
HandleMessageSurfacing(w, m) ==
    IF ~m.parses
    THEN Fire(w, Note("onError", "Parse", 0, Num(0), "SyntaxError"))
    ELSE HandleParsed(w, m)

\* _handleMessage: JSON.parse throws on a malformed payload and the catch
\* block only logs.
HandleMessage(w, m) == IF ~m.parses THEN w ELSE HandleParsed(w, m)

SendGateMutant(w) == w.g.isConnected

\* The readiness gate of sendAudio / sendVideoFrame / sendText.
SendGate(w) == w.g.isSetupComplete

GatedSend(w, kind) == IF ~SendGate(w) THEN w ELSE Send(w, kind)

(***************************************************************************)
(* Initial state: the objects as their constructors leave them.            *)
(***************************************************************************)
InitGemini ==
    [ws |-> "null", isConnected |-> FALSE, isSetupComplete |-> FALSE,
     maxRetries |-> Num(DefaultMaxRetries), retryCount |-> 0, connectionTimeout |-> FALSE]

InitTimers == [timeout |-> FALSE, retry |-> <<>>, blobs |-> <<>>]

InitObs ==
    [lastOp |-> "new", fired |-> <<>>, sent |-> <<>>, attempted |-> FALSE, event |-> NoEvent,
     errored |-> FALSE, msg |-> NoMessage]

InitHist ==
    [connects |-> 0, pure |-> FALSE, viaApp |-> FALSE, delays |-> <<>>, attempts |-> 0,
     errors |-> 0, lastFail |-> "", errReason |-> "", setupSeen |-> FALSE,
     disconnected |-> FALSE, wsSetups |-> 0, wsFirst |-> "", dropped |-> FALSE,
     deliveries |-> 0, dispatched |-> <<>>, cut |-> 0, wsSetupsSent |-> 0]

InitAudio ==
    [inputContext |-> FALSE, outputContext |-> FALSE, audioQueue |-> <<>>, isPlaying |-> FALSE, currentSource |-> 0,
     vadFramesAboveThreshold |-> 0, isSpeaking |-> FALSE,
     mediaStream |-> FALSE, sourceNode |-> FALSE, processorNode |-> FALSE,
     worklet |-> FALSE, posted |-> 0, pendingStarts |-> 0]

InitApp ==
    [isRunning |-> FALSE, sessionTimeout |-> FALSE, cameraStream |-> FALSE,
     isCapturing |-> FALSE]

InitVhist == [samples |-> <<>>, starts |-> <<>>, ends |-> <<>>, forwarded |-> <<>>, sent |-> <<>>]

InitSpeaker == [rendering |-> {}, endedDue |-> {}]

InitPhist ==
    [nextId |-> 1, batch |-> {}, noFlushPairs |-> {}, started |-> <<>>,
     overlapStarts |-> {}, bargeHit |-> FALSE, bargeMark |-> 0, speechOpen |-> FALSE]

InitDsp == [fn |-> "none"]

Init ==
    /\ gemini = InitGemini
    /\ socket = NoSocket
    /\ timers = InitTimers
    /\ audio = InitAudio
    /\ speaker = InitSpeaker
    /\ obs = InitObs
    /\ hist = InitHist
    /\ phist = InitPhist
    /\ app = InitApp
    /\ vhist = InitVhist
    /\ dsp = InitDsp

(***************************************************************************)
(* Client actions.                                                         *)
(***************************************************************************)
Commit(w) ==
    /\ gemini' = w.g
    /\ socket' = w.sock
    /\ timers' = w.tm
    /\ obs' = w.ob
    /\ hist' = w.h
    /\ UNCHANGED <<audio, speaker, app, phist, vhist, dsp>>

\* The client is quiescent and not marked connected, as after construction,
\* after disconnect() and after a handled close event with no timer left.
Quiescent(w) == w.tm.retry = <<>> /\ ~w.g.isConnected

ConnectWith(w, v, viaApp, ctorThrows) ==
    LET w1 == [w EXCEPT !.g.maxRetries = v, !.g.retryCount = 0,
                        !.h = [Impure(@) EXCEPT !.connects = @ + 1, !.pure = Quiescent(w),
                                                !.viaApp = viaApp /\ Quiescent(w),
                                                !.disconnected = FALSE]]
    IN  AttemptConnection(w1, ctorThrows)

\* connect(maxRetries) called directly with a number.
Connect(n, ctorThrows) ==
    /\ hist.connects < MaxConnects
    /\ Commit(ConnectWith(Begin(World, "connect"), Num(n), FALSE, ctorThrows))

\* App.start with audio and camera started: gemini.connect(apiKey).
AppStart(apiKey, ctorThrows) ==
    /\ hist.connects < MaxConnects
    /\ IF apiKey = ""
       THEN Commit(Begin(World, "start"))
       ELSE Commit(ConnectWith(Begin(World, "start"), Str(apiKey), TRUE, ctorThrows))

\* disconnect(), as far as the fields of the client go.
\* A disconnect that tells the application each time it is called.
DisconnectOpNotifying(w) ==
    Fire([CleanupConnection(w) EXCEPT !.g.isConnected = FALSE, !.g.isSetupComplete = FALSE,
                                      !.g.retryCount = 0, !.h.setupSeen = FALSE],
         Note("onDisconnected", "", 0, Num(0), ""))

DisconnectOp(w) ==
    LET w1 == CleanupConnection(w)
    IN  [w1 EXCEPT !.g.isConnected = FALSE, !.g.isSetupComplete = FALSE,
                   !.g.retryCount = 0, !.h.setupSeen = FALSE,
                   !.h.cut = w1.h.deliveries]

Disconnect ==
    LET w1 == DisconnectOp(Begin(World, "disconnect"))
    IN  Commit([w1 EXCEPT !.h = [Impure(@) EXCEPT !.disconnected = TRUE]])

\* The socket opens: readyState becomes OPEN and the open event is fired.
OpenReaction(w) ==
    LET w0 == Begin(w, "onopen")
        w1 == [w0 EXCEPT !.sock.readyState = "OPEN", !.h = Impure(@)]
    IN  WsOnOpen(w1)

OnOpen ==
    /\ gemini.ws # "null"
    /\ socket.readyState = "CONNECTING"
    /\ Commit(OpenReaction(World))

\* The server starts the closing handshake: the socket is CLOSING until the
\* close event is delivered.
Closing ==
    /\ gemini.ws # "null"
    /\ socket.readyState = "OPEN"
    /\ Commit([Begin(World, "closing") EXCEPT !.sock.readyState = "CLOSING"])

\* The connection ends: readyState becomes CLOSED, an error event is fired
\* first when the connection failed, then the close event, in one task.
CloseReaction(w, ev, failed) ==
    LET w0 == Begin(w, "onclose")
        w1 == [w0 EXCEPT !.sock.readyState = "CLOSED", !.ob.event = ev,
                         !.ob.errored = failed,
                         !.h.lastFail = IF @ = "" /\ ~w0.h.pure THEN @ ELSE CloseReason(ev)]
        w2 == IF failed THEN WsOnError(w1) ELSE w1
    IN  WsOnClose(w2, ev)

OnClose(ev, failed) ==
    /\ gemini.ws # "null"
    /\ socket.readyState \in {"CONNECTING", "OPEN", "CLOSING"}
    /\ Commit(CloseReaction(World, ev, failed))

\* The message event of the held socket.
MessageReaction(w, m) ==
    LET w0 == Begin(w, "onmessage")
        w1 == [w0 EXCEPT !.ob.msg = m, !.h.dropped = @ \/ ~m.parses]
    IN  HandleMessage(w1, m)

OnMessage(m) ==
    /\ gemini.ws # "null"
    /\ socket.readyState = "OPEN"
    /\ (m.setupComplete => hist.wsSetups < MaxSetups)
    /\ Commit(MessageReaction(World, m))

TimeoutReaction(w) ==
    LET w0 == Begin(w, "timeout")
        w1 == [w0 EXCEPT !.tm.timeout = FALSE,
                         !.h.lastFail = IF w0.h.pure THEN "Connection timeout" ELSE @]
    IN  HandleRetry(CleanupConnection(w1), "Connection timeout")

\* The establishment timer of the current attempt expires.
TimeoutFire ==
    /\ timers.timeout
    /\ Commit(TimeoutReaction(World))

RetryTimerReaction(w, i, ctorThrows) ==
    LET w0 == Begin(w, "retryTimer")
        w1 == [w0 EXCEPT !.tm.retry = SubSeq(@, 1, i - 1) \o SubSeq(@, i + 1, Len(@))]
    IN  AttemptConnection(w1, ctorThrows)

\* A re-attempt timer scheduled by _handleRetry expires.
RetryTimerFire(i, ctorThrows) ==
    /\ i \in 1..Len(timers.retry)
    /\ Commit(RetryTimerReaction(World, i, ctorThrows))

SendAudio == Commit(GatedSend(Begin(World, "sendAudio"), "audio"))

SendVideoFrame == Commit(GatedSend(Begin(World, "sendVideoFrame"), "image"))

SendText == Commit(GatedSend(Begin(World, "sendText"), "text"))

Next ==
    \/ \E n \in 0..MaxRetriesArg, t \in BOOLEAN : Connect(n, t)
    \/ \E k \in StoredApiKeys, t \in BOOLEAN : AppStart(k, t)
    \/ Disconnect
    \/ OnOpen
    \/ Closing
    \/ \E ev \in CloseEvents, f \in BOOLEAN : OnClose(ev, f)
    \/ \E m \in SessionMessages : OnMessage(m)
    \/ TimeoutFire
    \/ \E i \in 1..2, t \in BOOLEAN : RetryTimerFire(i, t)
    \/ SendAudio
    \/ SendVideoFrame
    \/ SendText

Spec == Init /\ [][Next]_vars

\* Connection establishment alone: every attempt ends by open, close or the
\* establishment timer, and a re-attempt timer that is pending expires.
NextRetry ==
    \/ \E n \in 0..MaxRetriesArg, t \in BOOLEAN : Connect(n, t)
    \/ OnOpen
    \/ \E ev \in CloseEvents, f \in BOOLEAN : OnClose(ev, f)
    \/ TimeoutFire
    \/ \E i \in 1..2, t \in BOOLEAN : RetryTimerFire(i, t)

SpecRetryLive ==
    /\ Init /\ [][NextRetry]_vars
    /\ WF_vars(TimeoutFire)
    /\ WF_vars(\E i \in 1..2, t \in BOOLEAN : RetryTimerFire(i, t))

(***************************************************************************)
(* Inbound dispatch: one session that opens, receives every kind of        *)
(* message, and closes.                                                    *)
(***************************************************************************)
NextDispatch ==
    \/ Connect(DefaultMaxRetries, FALSE)
    \/ OnOpen
    \/ \E m \in Messages : OnMessage(m)
    \/ \E ev \in CloseEvents : OnClose(ev, FALSE)

SpecDispatch == Init /\ [][NextDispatch]_vars

(***************************************************************************)
(* Model turns of up to MaxParts parts.  A part is inline audio, text,     *)
(* both, or neither (inline data that is not audio, or an empty text).     *)
(***************************************************************************)
MaxParts == 2

TurnPartKinds == PartKinds \cup {"none"}

TurnParts == UNION {[1..n -> TurnPartKinds] : n \in 0..MaxParts}

TurnMessages ==
    [parses : {TRUE}, setupComplete : {FALSE},
     serverContent : [present : {TRUE}, interrupted : {FALSE}, hasModelTurn : {TRUE},
                      parts : TurnParts, outputTranscription : BOOLEAN,
                      inputTranscription : BOOLEAN, turnComplete : BOOLEAN],
     error : {FALSE}, errorMessage : {""}]

\* One session: a connect, the handshake, then the turns of the model.
NextTurn ==
    \/ gemini.ws = "null" /\ Connect(DefaultMaxRetries, FALSE)
    \/ OnOpen
    \/ \E m \in SetupCompleteMessages : ~gemini.isSetupComplete /\ OnMessage(m)
    \/ \E m \in TurnMessages : gemini.isSetupComplete /\ OnMessage(m)

SpecTurn == Init /\ [][NextTurn]_vars

(***************************************************************************)
(* The representations of event.data that _handleMessage accepts.  A       *)
(* string or an ArrayBuffer is decoded and dispatched within the call; a   *)
(* Blob is read with data.text(), a promise, and dispatched by a later     *)
(* call of _handleMessage when the promise resolves.  timers.blobs holds   *)
(* the pending promises, each with the message and its delivery number.    *)
(***************************************************************************)
MaxDeliveries == 3

DataKinds == {"string", "ArrayBuffer", "Blob"}

DataMessages ==
    {m \in Messages :
        /\ m.parses /\ ~m.error
        /\ \/ m.setupComplete /\ m.serverContent = NoContent
           \/ ~m.setupComplete /\ m.serverContent = AudioContent}

\* The text of delivery k is parsed and dispatched.
DispatchText(w, m, k) ==
    [HandleMessage(w, m) EXCEPT !.h.dispatched = Append(@, k)]

HandleData(w, m, kind, k) ==
    IF kind = "Blob"
    THEN [w EXCEPT !.tm.blobs = Append(@, [m |-> m, k |-> k])]
    ELSE DispatchText(w, m, k)

\* ws.onmessage with event.data of the given kind.
Deliver(m, kind) ==
    /\ gemini.ws # "null"
    /\ socket.readyState = "OPEN"
    /\ hist.deliveries < MaxDeliveries
    /\ LET w0 == Begin(World, "onmessage")
           w1 == [w0 EXCEPT !.ob.msg = m, !.h.deliveries = @ + 1]
       IN  Commit(HandleData(w1, m, kind, w1.h.deliveries))

\* The promise of data.text() of the i-th pending Blob resolves.
BlobText(i) ==
    /\ i \in 1..Len(timers.blobs)
    /\ LET b == timers.blobs[i]
           w0 == Begin(World, "blobText")
           w1 == [w0 EXCEPT !.ob.msg = b.m,
                            !.tm.blobs = [j \in 1..(Len(@) - 1) |->
                                            IF j < i THEN @[j] ELSE @[j + 1]]]
       IN  Commit(DispatchText(w1, b.m, b.k))

NextData ==
    \/ Connect(DefaultMaxRetries, FALSE)
    \/ OnOpen
    \/ \E m \in DataMessages, kind \in DataKinds : Deliver(m, kind)
    \/ \E i \in 1..MaxDeliveries : BlobText(i)
    \/ Disconnect

SpecData == Init /\ [][NextData]_vars

(***************************************************************************)
(* AudioManager playback queue.  A chunk is identified by the order in     *)
(* which queueAudio accepted it; the AudioBufferSourceNode created for a   *)
(* chunk carries the same number.  speaker.rendering are the sources that  *)
(* are audible, speaker.endedDue the sources whose 'ended' event is queued *)
(* (after a natural end or after stop()) and not yet delivered.            *)
(***************************************************************************)
ChunkKinds == {"pcm", "empty", "invalid"}

PWorld == [a |-> audio, spk |-> speaker, ob |-> obs, ph |-> phist, vh |-> vhist]

\* source.start(): the chunk becomes audible.
StartSource(p, c) ==
    [p EXCEPT !.a.currentSource = c.id,
              !.spk.rendering = @ \cup {c.id},
              !.ph.started = Append(@, c.id),
              !.ph.overlapStarts = @ \cup {<<r, c.id>> : r \in p.spk.rendering}]

\* _playNext: createBuffer throws for a chunk without samples, and the
\* catch block moves on to the next chunk.
RECURSIVE PlayNext(_)
PlayNext(p) ==
    IF p.a.audioQueue = <<>>
    THEN [p EXCEPT !.a.isPlaying = FALSE]
    ELSE LET c == Head(p.a.audioQueue)
             p1 == [p EXCEPT !.a.isPlaying = TRUE, !.a.audioQueue = Tail(@)]
         IN  IF c.playable THEN StartSource(p1, c) ELSE PlayNext(p1)

\* Variant of the 'ended' handler that does not move on.
SourceOnEndedNoAdvance(p) == [p EXCEPT !.a.currentSource = 0]

\* The 'ended' handler installed by _playNext.
SourceOnEnded(p) == PlayNext([p EXCEPT !.a.currentSource = 0])

\* source.stop(): an audible source falls silent and its 'ended' event is
\* queued; a source that already ended is left alone.
HaltSource(p, s) ==
    IF s \in p.spk.rendering
    THEN [p EXCEPT !.spk.rendering = @ \ {s}, !.spk.endedDue = @ \cup {s}]
    ELSE p

StopPlaybackOp(p) ==
    LET p1 == [p EXCEPT !.a.audioQueue = <<>>, !.ph.batch = {}]
        p2 == IF p1.a.currentSource # 0
              THEN [HaltSource(p1, p1.a.currentSource) EXCEPT !.a.currentSource = 0]
              ELSE p1
    IN  [p2 EXCEPT !.a.isPlaying = FALSE]

QueueAudioOp(p, kind) ==
    IF kind = "invalid" \/ ~p.a.outputContext
    THEN p
    ELSE LET id == p.ph.nextId
             c == [id |-> id, playable |-> (kind = "pcm")]
             p1 == [p EXCEPT !.a.audioQueue = Append(@, c),
                             !.ph.nextId = id + 1,
                             !.ph.noFlushPairs =
                                 IF c.playable THEN @ \cup {<<a, id>> : a \in p.ph.batch} ELSE @,
                             !.ph.batch = IF c.playable THEN @ \cup {id} ELSE @]
         IN  IF ~p1.a.isPlaying THEN PlayNext(p1) ELSE p1

IsSpeakingNow(p) == p.a.isPlaying

PBegin(p, op) ==
    [p EXCEPT !.ob = [lastOp |-> op, fired |-> <<>>, sent |-> <<>>, attempted |-> FALSE,
                      event |-> NoEvent, errored |-> FALSE, msg |-> NoMessage],
              !.ph.bargeHit = FALSE]

PCommit(p) ==
    /\ audio' = p.a
    /\ speaker' = p.spk
    /\ obs' = p.ob
    /\ phist' = p.ph
    /\ vhist' = p.vh
    /\ UNCHANGED <<gemini, socket, timers, app, hist, dsp>>

\* AudioManager.init: the output context exists unless AudioContext is
\* unsupported.
AudioInit(supported) ==
    LET p0 == PBegin(PWorld, "init")
    IN  IF supported
        THEN PCommit([p0 EXCEPT !.a.inputContext = TRUE, !.a.outputContext = TRUE])
        ELSE PCommit([p0 EXCEPT !.ob.fired =
                         Append(@, Note("audio.onError", "", 0, Num(0), "AudioContext not supported"))])

QueueAudio(kind) ==
    /\ phist.nextId <= MaxChunks
    /\ PCommit(QueueAudioOp(PBegin(PWorld, "queueAudio"), kind))

StopPlayback == PCommit(StopPlaybackOp(PBegin(PWorld, "stopPlayback")))

\* A source reaches the end of its buffer.
Finish(s) ==
    /\ s \in speaker.rendering
    /\ LET p0 == PBegin(PWorld, "finish")
       IN  PCommit([p0 EXCEPT !.spk.rendering = @ \ {s}, !.spk.endedDue = @ \cup {s}])

\* The 'ended' event of source s is delivered.
Ended(s) ==
    /\ s \in speaker.endedDue
    /\ LET p0 == PBegin(PWorld, "ended")
       IN  PCommit(SourceOnEnded([p0 EXCEPT !.spk.endedDue = @ \ {s}]))

\* App's audio.onSpeechStart handler: barge-in.
SpeechStartHandler(p) == IF IsSpeakingNow(p) THEN StopPlaybackOp(p) ELSE p

OnSpeechStart ==
    LET p0 == [PBegin(PWorld, "onSpeechStart") EXCEPT
                     !.ph.bargeHit = (speaker.rendering # {}),
                     !.ph.bargeMark = IF speaker.rendering # {} THEN phist.nextId ELSE @]
    IN  PCommit(SpeechStartHandler(p0))

NextPlay ==
    \/ \E b \in BOOLEAN : AudioInit(b)
    \/ \E k \in ChunkKinds : QueueAudio(k)
    \/ StopPlayback
    \/ \E s \in 1..MaxChunks : Finish(s)
    \/ \E s \in 1..MaxChunks : Ended(s)
    \/ OnSpeechStart

SpecPlay == Init /\ [][NextPlay]_vars

\* The output device plays every started buffer to its end and the event
\* loop delivers every queued 'ended' event.
SpecPlayLive ==
    /\ Init
    /\ [][NextPlay]_vars
    /\ \A s \in 1..MaxChunks : WF_vars(Finish(s)) /\ WF_vars(Ended(s))

(***************************************************************************)
(* AudioManager capture and voice-activity detection.  The processor node  *)
(* delivers one chunk with its RMS energy per reaction.  phist.speechOpen  *)
(* says that the last speech event fired was onSpeechStart.                *)
(***************************************************************************)
EnergySamples == {5, 10, 20}

Above(rms) == rms > VAD_THRESHOLD

PFire(p, name) == [p EXCEPT !.ob.fired = Append(@, Note(name, "", 0, Num(0), ""))]

SpeechStartDueEarly(a) ==
    ~a.isSpeaking /\ a.vadFramesAboveThreshold >= VAD_CONSECUTIVE_FRAMES - 1

SpeechStartDue(a) ==
    ~a.isSpeaking /\ a.vadFramesAboveThreshold >= VAD_CONSECUTIVE_FRAMES

SpeechEndDueEarly(a) == a.vadFramesAboveThreshold <= 1

SpeechEndDueAtOnce(a) == TRUE

SpeechEndDue(a) == a.vadFramesAboveThreshold = 0

\* A detector whose counter stops at the consecutive-frame minimum.
ProcessVADCapped(p, rms) ==
    IF Above(rms)
    THEN LET p1 == [p EXCEPT !.a.vadFramesAboveThreshold =
                                 IF @ < VAD_CONSECUTIVE_FRAMES THEN @ + 1 ELSE @]
         IN  IF SpeechStartDue(p1.a)
             THEN LET p2 == [p1 EXCEPT !.a.isSpeaking = TRUE,
                                       !.vh.starts = Append(@, Len(p1.vh.samples)),
                                       !.ph.speechOpen = TRUE]
                  IN  SpeechStartHandler(PFire(p2, "onSpeechStart"))
             ELSE p1
    ELSE IF p.a.isSpeaking /\ p.a.vadFramesAboveThreshold > 0
         THEN LET p1 == [p EXCEPT !.a.vadFramesAboveThreshold = @ - 1]
              IN  IF SpeechEndDue(p1.a)
                  THEN PFire([p1 EXCEPT !.a.isSpeaking = FALSE,
                                        !.vh.ends = Append(@, Len(p1.vh.samples)),
                                        !.ph.speechOpen = FALSE],
                             "onSpeechEnd")
                  ELSE p1
         ELSE [p EXCEPT !.a.vadFramesAboveThreshold = 0]

\* _processVAD; the sample being processed is the last of p.vh.samples.
ProcessVAD(p, rms) ==
    IF Above(rms)
    THEN LET p1 == [p EXCEPT !.a.vadFramesAboveThreshold = @ + 1]
         IN  IF SpeechStartDue(p1.a)
             THEN LET p2 == [p1 EXCEPT !.a.isSpeaking = TRUE,
                                       !.vh.starts = Append(@, Len(p1.vh.samples)),
                                       !.ph.speechOpen = TRUE]
                  IN  SpeechStartHandler(PFire(p2, "onSpeechStart"))
             ELSE p1
    ELSE IF p.a.isSpeaking /\ p.a.vadFramesAboveThreshold > 0
         THEN LET p1 == [p EXCEPT !.a.vadFramesAboveThreshold = @ - 1]
              IN  IF SpeechEndDue(p1.a)
                  THEN PFire([p1 EXCEPT !.a.isSpeaking = FALSE,
                                        !.vh.ends = Append(@, Len(p1.vh.samples)),
                                        !.ph.speechOpen = FALSE],
                             "onSpeechEnd")
                  ELSE p1
         ELSE [p EXCEPT !.a.vadFramesAboveThreshold = 0]

\* _handleAudioData: detection first, then the chunk is handed to
\* onAudioChunk.
Forward(p) ==
    [PFire(p, "onAudioChunk") EXCEPT !.vh.forwarded = Append(@, Len(p.vh.samples))]

\* A handler that hands the chunk on before it runs the detection.
HandleAudioDataChunkFirst(p, rms) == ProcessVAD(Forward(p), rms)

HandleAudioData(p, rms) == Forward(ProcessVAD(p, rms))

\* stopInput.  The node is disconnected and dropped; the messages its
\* processor has posted already stay queued for the port's handler.
StopInputOp(p) ==
    [p EXCEPT !.a.processorNode = FALSE, !.a.sourceNode = FALSE, !.a.mediaStream = FALSE,
              !.a.vadFramesAboveThreshold = 0, !.a.isSpeaking = FALSE,
              !.vh = InitVhist]

\* startInput up to its first await: the call is suspended on getUserMedia.
StartInputOp(p) == [p EXCEPT !.a.pendingStarts = @ + 1]

\* The outcomes of the steps of startInput after its await.
StartOutcomes == {"worklet", "script", "denied", "processorThrows"}

StartInputFails(p, error) ==
    [p EXCEPT !.ob.fired = Append(@, Note("audio.onError", "", 0, Num(0), error))]

\* The rest of startInput, once getUserMedia has settled: it rejects
\* (denied), or it resolves and the stream is kept; createMediaStreamSource
\* throws when there is no input context; the processor is an
\* AudioWorkletNode whose port delivers the chunks (worklet) or, where
\* worklets are missing or fail, a ScriptProcessorNode (script), and
\* createScriptProcessor may throw (processorThrows).
ResumeStartInput(p, outcome) ==
    LET p1 == [p EXCEPT !.a.pendingStarts = @ - 1]
        p2 == [p1 EXCEPT !.a.mediaStream = TRUE]
        p3 == [p2 EXCEPT !.a.sourceNode = TRUE]
    IN  IF outcome = "denied" THEN StartInputFails(p1, "NotAllowedError")
        ELSE IF ~p2.a.inputContext THEN StartInputFails(p2, "TypeError")
        ELSE IF outcome = "processorThrows" THEN StartInputFails(p3, "NotSupportedError")
        ELSE [p3 EXCEPT !.a.processorNode = TRUE, !.a.worklet = (outcome = "worklet")]

StartInput ==
    /\ audio.pendingStarts < MaxPending
    /\ PCommit(StartInputOp(PBegin(PWorld, "startInput")))

GetUserMediaSettles(outcome) ==
    /\ audio.pendingStarts > 0
    /\ PCommit(ResumeStartInput(PBegin(PWorld, "getUserMedia"), outcome))

StopInput == PCommit(StopInputOp(PBegin(PWorld, "stopInput")))

MaxPosted == 1

\* The worklet processor, on the audio thread, has a chunk full and posts it.
WorkletPost ==
    /\ audio.processorNode /\ audio.worklet
    /\ audio.posted < MaxPosted
    /\ PCommit([PBegin(PWorld, "postMessage") EXCEPT !.a.posted = @ + 1])

\* A chunk is due: a posted message waits at the port, or the node is a
\* script processor, whose audioprocess event runs its handler.
ChunkDue == audio.posted > 0 \/ (audio.processorNode /\ ~audio.worklet)

Received(p) == [p EXCEPT !.a.posted = IF @ > 0 THEN @ - 1 ELSE 0]

\* The processor node delivers a chunk whose energy is rms.
AudioSample(rms) ==
    /\ ChunkDue
    /\ Len(vhist.samples) < MaxSamples
    /\ LET p0 == Received(PBegin(PWorld, "audioSample"))
           p1 == [p0 EXCEPT !.vh.samples = Append(@, rms)]
       IN  PCommit(HandleAudioData(p1, rms))

NextVad ==
    \/ \E b \in BOOLEAN : AudioInit(b)
    \/ StartInput
    \/ WorkletPost
    \/ \E o \in StartOutcomes : GetUserMediaSettles(o)
    \/ StopInput
    \/ \E rms \in EnergySamples : AudioSample(rms)

SpecVad == Init /\ [][NextVad]_vars

(***************************************************************************)
(* The App: one session with the callbacks of the client wired to the      *)
(* handlers of _setupGeminiCallbacks.  A handler runs inside the reaction  *)
(* that fires its callback.  start() is taken with audio.init() and        *)
(* camera.start() succeeding.                                              *)
(***************************************************************************)
AWorld ==
    [g |-> gemini, sock |-> socket, tm |-> timers, ob |-> obs, h |-> hist,
     a |-> audio, spk |-> speaker, ph |-> phist, vh |-> vhist, app |-> app]

ACommit(w) ==
    /\ gemini' = w.g
    /\ socket' = w.sock
    /\ timers' = w.tm
    /\ obs' = w.ob
    /\ hist' = w.h
    /\ audio' = w.a
    /\ speaker' = w.spk
    /\ phist' = w.ph
    /\ vhist' = w.vh
    /\ app' = w.app
    /\ UNCHANGED dsp

\* CameraManager.stop and CameraManager.startCapture.
CameraStop(w) == [w EXCEPT !.app.isCapturing = FALSE, !.app.cameraStream = FALSE]

CameraStartCapture(w) == [w EXCEPT !.app.isCapturing = TRUE]

\* App.stop.
AppStopOp(w) ==
    LET w1 == [w EXCEPT !.app.sessionTimeout = FALSE]
        w2 == CameraStop(w1)
        w3 == StopInputOp(w2)
        w4 == StopPlaybackOp(w3)
        w5 == DisconnectOp(w4)
    IN  [w5 EXCEPT !.app.isRunning = FALSE]

\* gemini.onError and gemini.onDisconnected as the App sets them.
ErrorHandler(w) == IF w.app.isRunning THEN AppStopOp(w) ELSE w

DisconnectedHandler(w) == IF w.app.isRunning THEN AppStopOp(w) ELSE w

\* The handlers of the App for the callbacks a reaction of the client fired,
\* in the order fired.
RECURSIVE AppDeliver(_, _)
AppDeliver(w, notes) ==
    IF notes = <<>> THEN w
    ELSE LET n == Head(notes)
             w1 == CASE n.name = "onConnected" -> StartInputOp(CameraStartCapture(w))
                     [] n.name = "onDisconnected" -> DisconnectedHandler(w)
                     [] n.name = "onError" -> ErrorHandler(w)
                     [] n.name = "onAudioResponse" -> QueueAudioOp(w, n.s)
                     [] n.name = "onInterrupted" -> StopPlaybackOp(w)
                     [] OTHER -> w
         IN  AppDeliver(w1, Tail(notes))

Wired(w) == AppDeliver(w, w.ob.fired)

\* isReady().
IsReady(w) == w.g.isConnected /\ w.g.isSetupComplete

InterruptedContent ==
    [present |-> TRUE, interrupted |-> TRUE, hasModelTurn |-> TRUE, parts |-> <<"audio">>,
     outputTranscription |-> FALSE, inputTranscription |-> FALSE, turnComplete |-> FALSE]

\* The messages of a session as far as the App can tell them apart: the
\* handshake acknowledgement, an audio answer, an interruption, a server
\* error, a malformed payload.
AppMessages ==
    {m \in Messages :
        \/ ~m.parses
        \/ m.setupComplete /\ m.serverContent = NoContent /\ ~m.error
        \/ ~m.setupComplete /\ ~m.error /\ m.serverContent \in {AudioContent, InterruptedContent}
        \/ ~m.setupComplete /\ m.errorMessage # "" /\ m.serverContent = NoContent}

\* The number of chunks the App queues for playback when m is dispatched.
AudioParts(m) ==
    IF m.parses /\ ~m.setupComplete /\ m.serverContent = AudioContent THEN 1 ELSE 0

\* App.start: isRunning, audio.init(), camera.start(), gemini.connect(apiKey),
\* then the session timer.
AppSessionStart(apiKey, ctorThrows) ==
    /\ ~app.isRunning
    /\ hist.connects < MaxSessions
    /\ LET w0 == Begin(AWorld, "start")
           w1 == [w0 EXCEPT !.app.isRunning = TRUE, !.a.inputContext = TRUE,
                            !.a.outputContext = TRUE,
                            !.app.cameraStream = TRUE]
           w2 == Wired(ConnectWith(w1, Str(apiKey), TRUE, ctorThrows))
       IN  IF apiKey = ""
           THEN ACommit(w0)
           ELSE ACommit([w2 EXCEPT !.app.sessionTimeout = TRUE])

\* The stop button.
AppStop ==
    /\ app.isRunning
    /\ ACommit(AppStopOp(Begin(AWorld, "stop")))

\* The session timer expires.
SessionTimeoutFire ==
    /\ app.sessionTimeout
    /\ ACommit(AppStopOp(Begin(AWorld, "sessionTimeout")))

AppOnOpen ==
    /\ gemini.ws # "null"
    /\ socket.readyState = "CONNECTING"
    /\ ACommit(Wired(OpenReaction(AWorld)))

AppOnClose(ev, failed) ==
    /\ gemini.ws # "null"
    /\ socket.readyState \in {"CONNECTING", "OPEN", "CLOSING"}
    /\ ACommit(Wired(CloseReaction(AWorld, ev, failed)))

AppOnMessage(m) ==
    /\ gemini.ws # "null"
    /\ socket.readyState = "OPEN"
    /\ (m.setupComplete => (hist.wsSetups < MaxSetups /\ audio.pendingStarts < MaxPending))
    /\ phist.nextId + AudioParts(m) <= MaxAppChunks + 1
    /\ ACommit(Wired(MessageReaction(AWorld, m)))

AppTimeoutFire ==
    /\ timers.timeout
    /\ ACommit(Wired(TimeoutReaction(AWorld)))

AppRetryTimerFire(i, ctorThrows) ==
    /\ i \in 1..Len(timers.retry)
    /\ ACommit(Wired(RetryTimerReaction(AWorld, i, ctorThrows)))

\* audio.onAudioChunk as the App sets it: a captured chunk is forwarded when
\* the client is ready.
AppAudioChunk ==
    /\ audio.processorNode
    /\ LET w0 == Begin(AWorld, "sendAudio")
       IN  ACommit(IF IsReady(w0) THEN GatedSend(w0, "audio") ELSE w0)

\* audio.onAudioChunk as the App sets it, called by _handleAudioData.
AudioChunkHandler(w) == IF IsReady(w) THEN GatedSend(w, "audio") ELSE w

CaptureEnergies == {5, 20}

\* The processor node delivers a chunk of energy rms while the App's
\* handlers are installed.
AppCapture(rms) ==
    /\ ChunkDue
    /\ Len(vhist.samples) < MaxSamples
    /\ LET w0 == Received(PBegin(AWorld, "audioSample"))
           w1 == [w0 EXCEPT !.vh.samples = Append(@, rms)]
           w2 == AudioChunkHandler(HandleAudioData(w1, rms))
       IN  ACommit(IF w2.ob.sent # <<>>
                   THEN [w2 EXCEPT !.vh.sent = Append(@, Len(w2.vh.samples))]
                   ELSE w2)

NextCapture ==
    \/ AppSessionStart("AIzaSyKey", FALSE)
    \/ AppStop
    \/ AppOnOpen
    \/ \E m \in SetupCompleteMessages : AppOnMessage(m)
    \/ \E o \in {"worklet", "script"} : GetUserMediaSettles(o)
    \/ WorkletPost
    \/ \E rms \in CaptureEnergies : AppCapture(rms)

SpecCapture == Init /\ [][NextCapture]_vars

(***************************************************************************)
(* Long utterances: capture with chunks that are plainly quiet or plainly  *)
(* loud, up to MaxUtterance chunks between two resets of the detector.     *)
(***************************************************************************)
MaxUtterance == 8

UtteranceSample(rms) ==
    /\ ChunkDue
    /\ Len(vhist.samples) < MaxUtterance
    /\ LET p0 == Received(PBegin(PWorld, "audioSample"))
           p1 == [p0 EXCEPT !.vh.samples = Append(@, rms)]
       IN  PCommit(HandleAudioData(p1, rms))

NextUtterance ==
    \/ AudioInit(TRUE)
    \/ StartInput
    \/ \E o \in {"worklet", "script"} : GetUserMediaSettles(o)
    \/ WorkletPost
    \/ StopInput
    \/ \E rms \in CaptureEnergies : UtteranceSample(rms)

SpecUtterance == Init /\ [][NextUtterance]_vars

NextApp ==
    \/ \E k \in StoredApiKeys, t \in BOOLEAN : AppSessionStart(k, t)
    \/ AppStop
    \/ SessionTimeoutFire
    \/ AppOnOpen
    \/ \E ev \in CloseEvents, f \in BOOLEAN : AppOnClose(ev, f)
    \/ \E m \in AppMessages : AppOnMessage(m)
    \/ AppTimeoutFire
    \/ \E i \in 1..2, t \in BOOLEAN : AppRetryTimerFire(i, t)
    \/ AppAudioChunk
    \/ \E o \in StartOutcomes : GetUserMediaSettles(o)
    \/ \E s \in 1..MaxAppChunks : Finish(s)
    \/ \E s \in 1..MaxAppChunks : Ended(s)

SpecApp == Init /\ [][NextApp]_vars

(***************************************************************************)
(* The release operations, each exercised on its own object: the client    *)
(* (disconnect), the capture side and the playback side of the             *)
(* AudioManager (stopInput, stopPlayback).  The three share no field, so   *)
(* a run concerns one of them; dsp.part says which.                        *)
(***************************************************************************)
ReleaseParts == {"client", "capture", "playback"}

InitRelease ==
    /\ gemini = InitGemini /\ socket = NoSocket /\ timers = InitTimers
    /\ audio = InitAudio /\ speaker = InitSpeaker /\ obs = InitObs
    /\ hist = InitHist /\ phist = InitPhist /\ app = InitApp /\ vhist = InitVhist
    /\ dsp \in {[fn |-> "release", part |-> c] : c \in ReleaseParts}

\* Capture with chunks that are plainly quiet or plainly loud.
NextInput ==
    \/ AudioInit(TRUE)
    \/ StartInput
    \/ \E o \in StartOutcomes : GetUserMediaSettles(o)
    \/ WorkletPost
    \/ StopInput
    \/ \E rms \in CaptureEnergies : AudioSample(rms)

NextRelease ==
    \/ dsp.part = "client" /\ Next
    \/ dsp.part = "capture" /\ NextInput
    \/ dsp.part = "playback" /\ NextPlay

SpecRelease == InitRelease /\ [][NextRelease]_vars

(***************************************************************************)
(* The sample codec of the AudioManager.  A sample is a number in units of *)
(* 1/32768 (k stands for k/32768) or NaN; a value beyond the bounds stands *)
(* for any number that far out, the infinities included.  The functions    *)
(* are applied to a one-sample array.                                      *)
(***************************************************************************)
FullScale == 32768
PositiveScale == 32767
MaxOver == 2

Sample(k) == [nan |-> FALSE, k |-> k]
NaNSample == [nan |-> TRUE, k |-> 0]
Samples ==
    {Sample(k) : k \in -(FullScale + MaxOver) .. (FullScale + MaxOver)} \cup {NaNSample}

\* A store that keeps the sample as it is.
ClampNone(s) == s

\* Math.max(-1, Math.min(1, sample)); NaN stays NaN.
Clamp(s) ==
    IF s.nan THEN s
    ELSE Sample(IF s.k > FullScale THEN FullScale
                ELSE IF s.k < -FullScale THEN -FullScale ELSE s.k)

\* The integer part of n/d, as a typed-array store takes it (d > 0).
Trunc(n, d) == IF n >= 0 THEN n \div d ELSE -((-n) \div d)

\* clamped < 0 ? clamped * 0x8000 : clamped * 0x7FFF, integer part.
Scaled(c) ==
    IF c.k < 0 THEN Trunc(c.k * FullScale, FullScale)
    ELSE Trunc(c.k * PositiveScale, FullScale)

\* The store into an Int16Array element: modulo 2^16, NaN becomes 0.
ToInt16(v) == ((v + FullScale) % (2 * FullScale)) - FullScale

EncodeWord(s) ==
    LET c == Clamp(s) IN IF c.nan THEN 0 ELSE ToInt16(Scaled(c))

\* new Uint8Array(int16Array.buffer): the two bytes of the word, low first.
WordBytes(w) ==
    LET u == (w + 2 * FullScale) % (2 * FullScale) IN <<u % 256, u \div 256>>

\* btoa of two bytes: three sextets (and one padding character).
Btoa(b) == <<b[1] \div 4, (b[1] % 4) * 16 + b[2] \div 16, (b[2] % 16) * 4>>

\* atob of three sextets and one padding character: two bytes.
Atob(c) == <<c[1] * 4 + c[2] \div 16, (c[2] % 16) * 16 + c[3] \div 4>>

\* new Int16Array(bytes.buffer): the word of two bytes, low first.
BytesWord(b) ==
    LET u == b[1] + 256 * b[2] IN IF u >= FullScale THEN u - 2 * FullScale ELSE u

Float32ToBase64PCM16(s) == Btoa(WordBytes(EncodeWord(s)))

\* int16Array[i] / 32768.0, in units of 1/32768.
Base64ToPCM16Float32(c) == BytesWord(Atob(c))

InitCodec ==
    /\ gemini = InitGemini /\ socket = NoSocket /\ timers = InitTimers
    /\ audio = InitAudio /\ speaker = InitSpeaker /\ obs = InitObs
    /\ hist = InitHist /\ phist = InitPhist /\ app = InitApp /\ vhist = InitVhist
    /\ dsp \in {[fn |-> "codec", stage |-> "input", sample |-> s,
                 scaled |-> 0, word |-> 0, code |-> <<>>, decoded |-> 0] : s \in Samples}

Passive == UNCHANGED <<gemini, socket, timers, audio, speaker, app, obs, hist, phist, vhist>>

Encode ==
    /\ dsp.fn = "codec" /\ dsp.stage = "input"
    /\ dsp' = [dsp EXCEPT !.stage = "encoded",
                          !.scaled = IF Clamp(dsp.sample).nan THEN 0
                                     ELSE Scaled(Clamp(dsp.sample)),
                          !.word = EncodeWord(dsp.sample),
                          !.code = Float32ToBase64PCM16(dsp.sample)]
    /\ Passive

Decode ==
    /\ dsp.fn = "codec" /\ dsp.stage = "encoded"
    /\ dsp' = [dsp EXCEPT !.stage = "decoded",
                          !.decoded = Base64ToPCM16Float32(dsp.code)]
    /\ Passive

NextCodec == Encode \/ Decode

SpecCodec == InitCodec /\ [][NextCodec]_vars

(***************************************************************************)
(* _resample.  Rates are in units of 100 Hz; the ratio fromRate / toRate   *)
(* and the source positions i * ratio are kept as exact fractions.  The    *)
(* result is the array given (den = 1) or a new array whose elements are   *)
(* nums[i] / den.                                                          *)
(***************************************************************************)
MaxFrame == 5

Rates == {80, 160, 240, 441, 480}
FrameValues == {-1, 2}
Frames == UNION {[1..n -> FrameValues] : n \in 0..MaxFrame}

\* A length that drops the fraction instead of rounding it.
NewLengthFloor(len, fromRate, toRate) == (len * toRate) \div fromRate

\* Math.round(audioData.length / ratio), halves rounded up.
NewLength(len, fromRate, toRate) == (2 * len * toRate + fromRate) \div (2 * fromRate)

SrcIndexFloor(i, fromRate, toRate) == (i * fromRate) \div toRate

SrcIndexCeil(i, len, fromRate, toRate) ==
    LET next == SrcIndexFloor(i, fromRate, toRate) + 1
    IN  IF next < len - 1 THEN next ELSE len - 1

\* The indices of audioData read for the elements 0 .. n-1 of the result.
SourceReads(n, len, fromRate, toRate) ==
    UNION {{SrcIndexFloor(i, fromRate, toRate), SrcIndexCeil(i, len, fromRate, toRate)}
           : i \in 0..(n - 1)}

\* An element outside the array reads as undefined and makes the result NaN;
\* it is written 0 here, the read being recorded in SourceReads.
At(x, j) == IF j + 1 \in DOMAIN x THEN x[j + 1] ELSE 0

Resample(x, fromRate, toRate) ==
    IF fromRate = toRate THEN [den |-> 1, nums |-> x, reads |-> {}]
    ELSE LET n == NewLength(Len(x), fromRate, toRate)
             rem(i) == (i * fromRate) % toRate
         IN  [den |-> toRate,
              nums |-> [k \in 1..n |->
                          At(x, SrcIndexFloor(k - 1, fromRate, toRate))
                              * (toRate - rem(k - 1))
                          + At(x, SrcIndexCeil(k - 1, Len(x), fromRate, toRate))
                              * rem(k - 1)],
              reads |-> SourceReads(n, Len(x), fromRate, toRate)]

InitResample ==
    /\ gemini = InitGemini /\ socket = NoSocket /\ timers = InitTimers
    /\ audio = InitAudio /\ speaker = InitSpeaker /\ obs = InitObs
    /\ hist = InitHist /\ phist = InitPhist /\ app = InitApp /\ vhist = InitVhist
    /\ dsp \in {[fn |-> "resample", stage |-> "input", x |-> x, fromRate |-> f,
                 toRate |-> t, out |-> [den |-> 1, nums |-> <<>>, reads |-> {}]]
                : x \in Frames, f \in Rates, t \in Rates}

ResampleCall ==
    /\ dsp.fn = "resample" /\ dsp.stage = "input"
    /\ dsp' = [dsp EXCEPT !.stage = "done",
                          !.out = Resample(dsp.x, dsp.fromRate, dsp.toRate)]
    /\ Passive

NextResample == ResampleCall

SpecResample == InitResample /\ [][NextResample]_vars


(***************************************************************************)
(* Properties.                                                             *)
(***************************************************************************)
FiredNames == {obs.fired[i].name : i \in DOMAIN obs.fired}

IsPrefix(s, t) == Len(s) <= Len(t) /\ SubSeq(t, 1, Len(s)) = s

SendOps == {"sendAudio", "sendVideoFrame", "sendText"}

BackoffDelays == <<2000, 4000, 8000>>

\* C1: Setup gating.  From a fresh client, or after the most recent close
\* event or disconnect(), a sendAudio / sendVideoFrame / sendText call made
\* before a setupComplete message has been handled makes no transport send.
C1_SetupGating ==
    (obs.lastOp \in SendOps /\ ~hist.setupSeen) => obs.sent = <<>>

\* The gate is what stops the send: the transport is open and held.
C1_Witness ==
    /\ obs.lastOp \in SendOps
    /\ ~hist.setupSeen
    /\ gemini.ws # "null"
    /\ socket.readyState = "OPEN"
    /\ obs.sent = <<>>

\* C2: Retry backoff sequence.  After connect(3) on a quiescent client, while
\* no transport has opened, the delays scheduled are 2000, 4000, 8000 in that
\* order, one re-attempt follows each delay, then exactly one onError carries
\* the last failure reason, and nothing is pending or attempted afterwards.
C2_RetryBackoffSequence ==
    (hist.pure /\ gemini.maxRetries = Num(3)) =>
        /\ IsPrefix(hist.delays, BackoffDelays)
        /\ hist.errors <= 1
        /\ \/ timers.retry = <<>>
           \/ (hist.delays # <<>> /\ timers.retry = <<hist.delays[Len(hist.delays)]>>)
        /\ hist.attempts = Len(hist.delays) + (IF timers.retry = <<>> THEN 1 ELSE 0)
        /\ (hist.errors = 1 =>
               /\ hist.delays = BackoffDelays
               /\ hist.attempts = 4
               /\ hist.errReason = hist.lastFail
               /\ timers.retry = <<>>
               /\ ~timers.timeout
               /\ socket.readyState \in {"NONE", "CLOSED"})

C2_Witness ==
    /\ hist.pure
    /\ gemini.maxRetries = Num(3)
    /\ hist.delays = BackoffDelays
    /\ hist.errors = 1
    /\ hist.attempts = 4

\* C3: A session started through App.start retries a failed establishment
\* with backoff up to the retry budget and surfaces the terminal failure only
\* after the budget is used up.
C3_AppRetriesBeforeFailure ==
    (hist.pure /\ hist.viaApp /\ hist.errors >= 1) =>
        (Len(hist.delays) = DefaultMaxRetries /\ hist.delays = BackoffDelays)

\* C7: A close after the transport reached Ready fires onDisconnected exactly
\* once with the close event, clears isConnected and isSetupComplete, and
\* neither schedules a retry nor starts an attempt.
C7_CloseAfterReady ==
    [][(obs'.lastOp = "onclose" /\ hist.wsSetups >= 1) =>
          /\ obs'.fired = <<Note("onDisconnected", obs'.event.code, 0, Num(0), obs'.event.reason)>>
          /\ ~gemini'.isConnected
          /\ ~gemini'.isSetupComplete
          /\ timers'.retry = timers.retry
          /\ ~timers'.timeout
          /\ gemini'.retryCount = gemini.retryCount
          /\ gemini'.ws = gemini.ws
          /\ ~obs'.attempted]_vars

C7_Witness ==
    /\ obs.lastOp = "onclose"
    /\ hist.wsSetups >= 1
    /\ "onDisconnected" \in FiredNames
    /\ obs.event \in CloseEvents

\* C8: A close before the transport reached Ready (also after open and Setup,
\* before setupComplete) takes the retry path and fires no onDisconnected.
C8_CloseBeforeReadyRetries ==
    (obs.lastOp = "onclose" /\ hist.wsSetups = 0) =>
        /\ "onDisconnected" \notin FiredNames
        /\ \E i \in DOMAIN obs.fired :
               \/ obs.fired[i].name = "onRetry"
               \/ (obs.fired[i].name = "onError" /\ obs.fired[i].tag = "ConnectionFailed")

\* C9: After disconnect() and until the next connect(), no connection attempt
\* starts and no notification fires.
C9_QuiescentAfterDisconnect ==
    hist.disconnected => (obs.fired = <<>> /\ ~obs.attempted)

\* C10: A second or later setupComplete message on the same connection fires
\* neither onSetupComplete nor onConnected.
C10_SetupNotifiedOnce ==
    (obs.lastOp = "onmessage" /\ hist.wsSetups >= 2) =>
        ("onSetupComplete" \notin FiredNames /\ "onConnected" \notin FiredNames)

\* How many times the last reaction fired the callback name (with tag, when
\* tag is not "").
CountFired(name, tag) ==
    Cardinality({i \in DOMAIN obs.fired :
                    obs.fired[i].name = name /\ (tag = "" \/ obs.fired[i].tag = tag)})

\* The last reaction delivered a message whose serverContent was handed to
\* _handleServerContent.
ContentDispatched ==
    /\ obs.lastOp = "onmessage"
    /\ obs.msg.parses
    /\ ~obs.msg.setupComplete
    /\ obs.msg.serverContent.present

\* C11: Interruption short-circuit.  A serverContent payload with interrupted
\* set fires onInterrupted exactly once and no onAudioResponse,
\* onTextResponse, onTranscript or onTurnComplete, whatever else it carries.
C11_InterruptedShortCircuit ==
    (ContentDispatched /\ obs.msg.serverContent.interrupted) =>
        /\ CountFired("onInterrupted", "") = 1
        /\ FiredNames \cap {"onAudioResponse", "onTextResponse", "onTranscript",
                            "onTurnComplete"} = {}

C11_Witness ==
    /\ ContentDispatched
    /\ obs.msg.serverContent.interrupted
    /\ obs.msg.serverContent.parts = <<"text", "audio">>
    /\ obs.msg.serverContent.outputTranscription
    /\ obs.msg.serverContent.inputTranscription
    /\ obs.msg.serverContent.turnComplete
    /\ CountFired("onInterrupted", "") = 1

\* C12: Message dispatch.  A non-interrupted message whose serverContent has
\* inputTranscription, outputTranscription and turnComplete fires exactly one
\* onTranscript per transcription field and exactly one onTurnComplete.
C12_TranscriptsAndTurnComplete ==
    (/\ ContentDispatched
     /\ ~obs.msg.serverContent.interrupted
     /\ obs.msg.serverContent.inputTranscription
     /\ obs.msg.serverContent.outputTranscription
     /\ obs.msg.serverContent.turnComplete) =>
        /\ CountFired("onTranscript", "user") = 1
        /\ CountFired("onTranscript", "ai") = 1
        /\ CountFired("onTranscript", "") = 2
        /\ CountFired("onTurnComplete", "") = 1

C12_Witness ==
    /\ ContentDispatched
    /\ ~obs.msg.serverContent.interrupted
    /\ obs.msg.serverContent.inputTranscription
    /\ obs.msg.serverContent.outputTranscription
    /\ obs.msg.serverContent.turnComplete
    /\ obs.msg.serverContent.parts = <<"both">>
    /\ Len(obs.fired) = 5

\* C13: Every message that parses and has an error field fires the error
\* notification exactly once with the text the server supplied, whatever
\* other fields the message has.
C13_ErrorAlwaysSurfaced ==
    (obs.lastOp = "onmessage" /\ obs.msg.parses /\ obs.msg.error) =>
        /\ CountFired("onError", "") = 1
        /\ \A i \in DOMAIN obs.fired :
               (obs.fired[i].name = "onError" /\ obs.msg.errorMessage # "") =>
                   obs.fired[i].s = obs.msg.errorMessage

\* C14: A malformed payload is dropped: the reaction fires nothing, sends
\* nothing, starts nothing and changes no field of the client, its socket or
\* its timers, so that later messages meet the state they would have met.
C14_MalformedDropped ==
    [][(obs'.lastOp = "onmessage" /\ ~obs'.msg.parses) =>
          /\ obs'.fired = <<>>
          /\ obs'.sent = <<>>
          /\ ~obs'.attempted
          /\ gemini' = gemini
          /\ socket' = socket
          /\ timers' = timers]_vars

\* A well-formed message is dispatched after a malformed one was dropped on
\* the same socket.
C14_Witness ==
    /\ hist.dropped
    /\ obs.lastOp = "onmessage"
    /\ obs.msg.parses
    /\ obs.msg.serverContent.present
    /\ gemini.isSetupComplete
    /\ "onAudioResponse" \in FiredNames

StartedSet == {phist.started[i] : i \in DOMAIN phist.started}

StartIndex(c) == CHOOSE i \in DOMAIN phist.started : phist.started[i] = c

\* C4: Barge-in.  When onSpeechStart fires while a chunk is rendering, the
\* same reaction empties the pending queue and halts the render, and no chunk
\* queued before the event renders afterwards.
C4_BargeIn ==
    /\ (obs.lastOp = "onSpeechStart" /\ phist.bargeHit) =>
           (audio.audioQueue = <<>> /\ speaker.rendering = {})
    /\ \A c \in speaker.rendering : c >= phist.bargeMark

\* C5: At most one chunk is rendering at a time.
C5_OneRendering == Cardinality(speaker.rendering) <= 1

\* C6: FIFO.  Of two chunks queued with no flush between them, the first
\* starts rendering first and the second does not start while the first is
\* still rendering.
C6_Fifo ==
    \A pr \in phist.noFlushPairs :
        pr[2] \in StartedSet =>
            /\ pr[1] \in StartedSet
            /\ StartIndex(pr[1]) < StartIndex(pr[2])
            /\ pr \notin phist.overlapStarts

PlayableIds(q) == {q[i].id : i \in {j \in DOMAIN q : q[j].playable}}

\* The first chunk of the pending queue that has samples.
FirstPlayable(q) ==
    LET i == CHOOSE j \in DOMAIN q : q[j].playable /\ \A k \in 1..(j - 1) : ~q[k].playable
    IN  q[i].id

AdvanceStep ==
    /\ (obs'.lastOp = "ended" /\ PlayableIds(audio.audioQueue) # {}) =>
           /\ FirstPlayable(audio.audioQueue) \in speaker'.rendering
           /\ audio'.isPlaying
    /\ (obs'.lastOp = "ended" /\ PlayableIds(audio.audioQueue) = {}) =>
           /\ ~audio'.isPlaying
           /\ speaker'.rendering = speaker.rendering
    /\ (obs'.lastOp = "queueAudio" /\ ~audio.isPlaying /\ phist'.batch # phist.batch) =>
           phist.nextId \in speaker'.rendering

\* C19: Playback auto-advance.  When an 'ended' callback runs and a chunk is
\* pending, that chunk starts in the same reaction; when none is pending
\* playback becomes idle and the next queueAudio starts rendering at once;
\* and every chunk queued is eventually started unless a flush removes it.
C19_AutoAdvance ==
    /\ [][AdvanceStep]_vars
    /\ \A c \in 1..MaxChunks :
           (c \in phist.batch) ~> (c \in StartedSet \/ c \notin phist.batch)

C19_Witness ==
    /\ obs.lastOp = "ended"
    /\ phist.batch = {1, 2, 3}
    /\ phist.started = <<1, 2>>
    /\ speaker.rendering = {2}
    /\ Len(audio.audioQueue) = 1

\* C20: A message with an error field received by a ready session fires the
\* error notification and leaves the session connected: the socket stays held
\* and open, and isConnected and isSetupComplete stay true.
C20_RemoteErrorKeepsSession ==
    [][(/\ obs'.lastOp = "onmessage"
        /\ obs'.msg.parses
        /\ obs'.msg.error
        /\ ~obs'.msg.setupComplete
        /\ gemini.isSetupComplete) =>
          /\ "onError" \in {obs'.fired[i].name : i \in DOMAIN obs'.fired}
          /\ gemini'.ws = gemini.ws
          /\ socket'.readyState = "OPEN"
          /\ gemini'.isConnected
          /\ gemini'.isSetupComplete]_vars

\* C21: When startInput fails (onError fired, false returned), at whichever
\* step, the AudioManager holds no capture stream afterwards (none was held
\* when the call resumed).
C21_FailedStartHoldsNoStream ==
    [][(/\ obs'.lastOp = "getUserMedia"
        /\ "audio.onError" \in {obs'.fired[i].name : i \in DOMAIN obs'.fired}
        /\ ~audio.mediaStream) => ~audio'.mediaStream]_vars

\* C22: For every sample k/32768 with k in [-32768, 32768] the decoded value
\* of its encoding differs from it by at most 1/32768, and for any input,
\* outside [-1, 1] included, the word stored is the scaled value itself (the
\* 16-bit store does not wrap) and the code carries that word.
C22_CodecRoundTrip ==
    (dsp.fn = "codec" /\ dsp.stage # "input") =>
        /\ dsp.word = dsp.scaled
        /\ dsp.word \in -FullScale .. PositiveScale
        /\ (dsp.stage = "decoded" =>
              /\ dsp.decoded = dsp.word
              /\ (~dsp.sample.nan /\ dsp.sample.k \in -FullScale .. FullScale =>
                    /\ dsp.decoded - dsp.sample.k \in -1 .. 1))

C22_Witness ==
    /\ dsp.fn = "codec" /\ dsp.stage = "decoded"
    /\ dsp.sample = Sample(FullScale) /\ dsp.decoded = PositiveScale

\* C23: resample(x, r1, r2) has length round(L * r2 / r1) for an input of
\* length L (the integer n with L*r2/r1 - 1/2 < n <= L*r2/r1 + 1/2), it
\* returns x itself when r1 = r2, and every source index it reads lies in
\* 0 .. L-1.
C23_ResampleShape ==
    (dsp.fn = "resample" /\ dsp.stage = "done") =>
        LET len == Len(dsp.x)
            n == Len(dsp.out.nums)
        IN  /\ 2 * len * dsp.toRate - dsp.fromRate < 2 * n * dsp.fromRate
            /\ 2 * n * dsp.fromRate <= 2 * len * dsp.toRate + dsp.fromRate
            /\ (dsp.fromRate = dsp.toRate => dsp.out.den = 1 /\ dsp.out.nums = dsp.x)
            /\ dsp.out.reads \subseteq 0..(len - 1)

C23_Witness ==
    /\ dsp.fn = "resample" /\ dsp.stage = "done"
    /\ dsp.fromRate = 441 /\ dsp.toRate = 160
    /\ Len(dsp.x) = 4 /\ Len(dsp.out.nums) = 1 /\ dsp.out.reads = {0, 1}

CaptureInv ==
    /\ vhist.forwarded = [i \in 1..Len(vhist.samples) |-> i]
    /\ \A i \in DOMAIN vhist.sent : vhist.sent[i] \in 1..Len(vhist.samples)
    /\ \A i, j \in DOMAIN vhist.sent : i < j => vhist.sent[i] < vhist.sent[j]

CaptureStep ==
    obs'.lastOp = "audioSample" =>
        LET f == obs'.fired
            i == Len(vhist'.samples)
        IN  /\ i = Len(vhist.samples) + 1
            /\ Len(f) \in 1..2
            /\ f[Len(f)].name = "onAudioChunk"
            /\ (Len(f) = 2 => f[1].name \in {"onSpeechStart", "onSpeechEnd"})
            /\ (vhist'.starts # vhist.starts =>
                  /\ vhist'.starts = Append(vhist.starts, i)
                  /\ f[1].name = "onSpeechStart"
                  /\ vhist.forwarded = [k \in 1..(i - 1) |-> k])
            /\ (vhist'.ends # vhist.ends =>
                  /\ vhist'.ends = Append(vhist.ends, i)
                  /\ f[1].name = "onSpeechEnd"
                  /\ vhist.forwarded = [k \in 1..(i - 1) |-> k])
            /\ vhist'.forwarded = Append(vhist.forwarded, i)
            /\ (obs'.sent # <<>> =>
                  obs'.sent = <<"audio">> /\ vhist'.sent = Append(vhist.sent, i))

\* C24: Captured chunks reach onAudioChunk, and the socket when the client is
\* ready, in capture order; the speech-start or speech-end event a chunk's
\* energy produces fires in that chunk's reaction before the chunk is handed
\* on, hence after the previous chunk was.
C24_CaptureOrder == []CaptureInv /\ [][CaptureStep]_vars

C24_Witness ==
    /\ obs.lastOp = "audioSample"
    /\ Len(obs.fired) = 2 /\ obs.fired[1].name = "onSpeechEnd"
    /\ obs.sent = <<"audio">>
    /\ Len(vhist.sent) >= 2

\* C25: Inbound messages are dispatched in the order the socket delivered
\* them, whatever the representation of their data: a message is dispatched
\* after every message delivered before it, and a message delivered before
\* disconnect() fires no notification after it.
C25_DeliveryOrder ==
    [][hist'.dispatched # hist.dispatched =>
         LET k == hist'.dispatched[Len(hist'.dispatched)]
         IN  /\ \A j \in DOMAIN hist.dispatched : hist.dispatched[j] < k
             /\ \A b \in {timers'.blobs[j] : j \in DOMAIN timers'.blobs} : k < b.k
             /\ (obs'.fired # <<>> => k > hist'.cut)]_vars

\* C26: stopInput resets the detector, so that capture restarts with
\* vadFramesAboveThreshold = 0 and isSpeaking = false whatever was heard
\* before the stop: the detector is at rest whenever no processor is set up.
C26_RestartFromInitial ==
    ~audio.processorNode => audio.vadFramesAboveThreshold = 0 /\ ~audio.isSpeaking

\* The fields of the program, the histories left out.
Held(w) == <<w.g, w.sock, w.tm, w.a, w.spk, w.app>>

Twice(first, second) ==
    /\ Held(second) = Held(first)
    /\ second.ob.fired = <<>>
    /\ second.ob.sent = <<>>

\* C27: In every state, a second disconnect(), stopInput() or stopPlayback()
\* right after the first changes no field and fires nothing, and so does the
\* first one on objects that hold nothing.
C27_ReleaseIdempotent ==
    LET d1 == DisconnectOp(Begin(AWorld, "disconnect"))
        i1 == StopInputOp(PBegin(AWorld, "stopInput"))
        p1 == StopPlaybackOp(PBegin(AWorld, "stopPlayback"))
    IN  /\ Twice(d1, DisconnectOp(Begin(d1, "disconnect")))
        /\ Twice(i1, StopInputOp(PBegin(i1, "stopInput")))
        /\ Twice(p1, StopPlaybackOp(PBegin(p1, "stopPlayback")))
        /\ (Held(AWorld) = <<InitGemini, NoSocket, InitTimers, InitAudio, InitSpeaker, InitApp>>
              => Twice(AWorld, d1) /\ Twice(AWorld, i1) /\ Twice(AWorld, p1))

C27_Witness ==
    /\ dsp.fn = "release" /\ dsp.part = "client"
    /\ obs.lastOp = "disconnect"
    /\ hist.disconnected /\ hist.connects > 0
    /\ gemini.ws = "null" /\ timers.retry # <<>>

\* C28: On a transport that has opened exactly one Setup message was sent,
\* in the open reaction, before any other message on that transport; the
\* open reaction leaves no establishment timer and retryCount = 0.
C28_SetupFirst ==
    /\ hist.wsFirst \in {"", "setup"}
    /\ hist.wsSetupsSent <= 1
    /\ (gemini.ws # "null" /\ socket.readyState \in {"OPEN", "CLOSING"}
          => hist.wsFirst = "setup" /\ hist.wsSetupsSent = 1)
    /\ (obs.lastOp = "onopen"
          => /\ obs.sent = <<"setup">>
             /\ ~timers.timeout /\ ~gemini.connectionTimeout
             /\ gemini.retryCount = 0 /\ gemini.isConnected)
    /\ (obs.lastOp # "onopen" => \A i \in DOMAIN obs.sent : obs.sent[i] # "setup")

C28_Witness ==
    /\ obs.lastOp = "sendAudio" /\ obs.sent = <<"audio">>
    /\ hist.wsFirst = "setup" /\ hist.wsSetupsSent = 1
    /\ hist.wsSetups = 0

\* One connect(n) with a number n, on a quiescent client, no transport opened
\* since.
SingleConnect == hist.pure /\ gemini.maxRetries.isNum

RetryBound ==
    /\ (SingleConnect =>
          /\ hist.attempts <= gemini.maxRetries.num + 1
          /\ gemini.retryCount <= gemini.maxRetries.num
          /\ hist.errors <= 1
          /\ (hist.errors = 1 =>
                /\ hist.attempts = gemini.maxRetries.num + 1
                /\ timers.retry = <<>> /\ ~timers.timeout))
    /\ \A i \in DOMAIN obs.fired :
          (obs.fired[i].name = "onError" /\ obs.fired[i].tag = "ConnectionFailed"
             /\ gemini.maxRetries.isNum)
          => gemini.retryCount >= gemini.maxRetries.num

\* C29: A single connect(n), n a number, makes at most n+1 attempts while no
\* transport opens, and ends: a transport opens or the terminal onError
\* fires, once, and never while retryCount < maxRetries.
C29_RetryTermination ==
    /\ []RetryBound
    /\ (SingleConnect ~> (~hist.pure \/ hist.errors = 1))

C29_Witness ==
    /\ SingleConnect /\ gemini.maxRetries = Num(2)
    /\ hist.errors = 1 /\ hist.attempts = 3 /\ hist.delays = <<2000, 4000>>

\* The entries of the last reaction into the retry path: each one fires
\* onRetry or the terminal onError.
RetryEntries ==
    Cardinality({i \in DOMAIN obs.fired :
                    \/ obs.fired[i].name = "onRetry"
                    \/ obs.fired[i].name = "onError" /\ obs.fired[i].tag = "ConnectionFailed"})

RetryOncePerFailure ==
    /\ RetryEntries <= 1
    /\ (RetryEntries = 1 => obs.lastOp \in {"connect", "start", "retryTimer", "timeout", "onclose"})
    /\ (RetryEntries = 1 =>
          ~timers.timeout /\ socket.readyState \in {"NONE", "CLOSED"})

\* C30: A failed attempt enters the retry path once (one reaction, one entry,
\* and the attempt can then cause no other), and at most one re-attempt timer
\* is pending at any time, whatever the sequence of connect() and
\* disconnect().
C30_OneRetryTimer == RetryOncePerFailure /\ Len(timers.retry) <= 1

\* C31: Readiness is per connection.  isSetupComplete (and isReady()) is true
\* only while the transport held in ws is open and has itself received a
\* setupComplete message, and no audio, image or text envelope is sent on a
\* transport before that transport's setupComplete.
C31_ReadinessPerConnection ==
    /\ gemini.isSetupComplete =>
          /\ gemini.ws # "null"
          /\ socket.readyState \in {"OPEN", "CLOSING"}
          /\ hist.wsSetups >= 1
    /\ \A i \in DOMAIN obs.sent : obs.sent[i] # "setup" => hist.wsSetups >= 1

\* C32: Playback bookkeeping matches the output device under every
\* interleaving of queueAudio, stopPlayback and 'ended' callbacks: whatever is
\* rendering is the source held in currentSource and isPlaying is true with
\* it, and isPlaying is true only while a chunk renders or the 'ended' event
\* of one that did is still to be delivered.
C32_PlaybackBookkeeping ==
    /\ speaker.rendering # {} =>
          /\ audio.isPlaying
          /\ speaker.rendering = {audio.currentSource}
    /\ audio.isPlaying => (speaker.rendering # {} \/ speaker.endedDue # {})

\* The names of the notifications the last reaction fired, in order.
FiredSeq == [i \in DOMAIN obs.fired |-> obs.fired[i].name]

\* The notifications the parts of a model turn call for, in part order.
RECURSIVE PartNotifications(_)
PartNotifications(parts) ==
    IF parts = <<>> THEN <<>>
    ELSE (CASE Head(parts) = "audio" -> <<"onAudioResponse">>
            [] Head(parts) = "text" -> <<"onTextResponse">>
            [] Head(parts) = "both" -> <<"onAudioResponse", "onTextResponse">>
            [] OTHER -> <<>>)
         \o PartNotifications(Tail(parts))

\* C33: For a non-interrupted serverContent with a modelTurn the
\* notifications follow part order: one onAudioResponse per inline-audio
\* part, one onTextResponse per text part, audio before text within a part,
\* and all of them before the transcript and turn-complete notifications of
\* the message.
C33_PartOrder ==
    (ContentDispatched /\ ~obs.msg.serverContent.interrupted
        /\ obs.msg.serverContent.hasModelTurn) =>
        LET expected == PartNotifications(obs.msg.serverContent.parts)
        IN  /\ IsPrefix(expected, FiredSeq)
            /\ \A i \in (Len(expected) + 1)..Len(FiredSeq) :
                   FiredSeq[i] \in {"onTranscript", "onTurnComplete"}

C33_Witness ==
    /\ ContentDispatched
    /\ obs.msg.serverContent.parts = <<"text", "both">>
    /\ obs.msg.serverContent.outputTranscription
    /\ obs.msg.serverContent.turnComplete
    /\ FiredSeq = <<"onTextResponse", "onAudioResponse", "onTextResponse",
                    "onTranscript", "onTurnComplete">>

\* The positions in the last reaction's notifications of the transcript
\* notifications for a role, and of onTurnComplete.
TranscriptAt(role) ==
    {i \in DOMAIN obs.fired : obs.fired[i].name = "onTranscript" /\ obs.fired[i].tag = role}

TurnCompleteAt == {i \in DOMAIN obs.fired : obs.fired[i].name = "onTurnComplete"}

\* C34: When one message carries both inputTranscription and
\* outputTranscription, the user (input) transcript notification fires before
\* the AI (output) transcript notification, and both before onTurnComplete.
C34_TranscriptOrder ==
    (/\ ContentDispatched
     /\ ~obs.msg.serverContent.interrupted
     /\ obs.msg.serverContent.inputTranscription
     /\ obs.msg.serverContent.outputTranscription) =>
        /\ \A i \in TranscriptAt("user"), j \in TranscriptAt("ai") : i < j
        /\ \A i \in TranscriptAt("user") \cup TranscriptAt("ai"), j \in TurnCompleteAt : i < j

\* The envelope each send operation transmits.
EnvelopeOf(op) ==
    CASE op = "sendAudio" -> "audio" [] op = "sendVideoFrame" -> "image" [] OTHER -> "text"

DropStep ==
    /\ (/\ obs'.lastOp \in SendOps
        /\ \/ ~(gemini.isConnected /\ gemini.isSetupComplete)
           \/ gemini.ws = "null"
           \/ socket.readyState # "OPEN") =>
          /\ obs'.sent = <<>>
          /\ obs'.fired = <<>>
          /\ ~obs'.attempted
          /\ gemini' = gemini /\ socket' = socket /\ timers' = timers
    /\ (obs'.lastOp \in SendOps /\ obs'.sent # <<>>) => obs'.sent = <<EnvelopeOf(obs'.lastOp)>>
    /\ (obs'.lastOp \notin SendOps) =>
          \A i \in DOMAIN obs'.sent : obs'.sent[i] \notin {"audio", "image", "text"}

\* C35: A payload offered while the client is not ready or the transport is
\* not open is dropped, not queued: the call changes no field of the client,
\* its socket or its timers and fires nothing, and no later reaction
\* transmits it: an envelope goes out only in the call that offers it.
C35_DroppedNotQueued == [][DropStep]_vars

C35_Witness ==
    /\ obs.lastOp = "sendText"
    /\ gemini.isConnected /\ gemini.isSetupComplete
    /\ socket.readyState = "CLOSING"
    /\ obs.sent = <<>>

\* What ws.onerror would do in the present state, taken by itself.
ErrorAlone ==
    LET e == WsOnError(Begin(World, "onerror"))
    IN  /\ e.ob.fired = <<>> /\ e.ob.sent = <<>> /\ ~e.ob.attempted
        /\ e.g.isConnected = gemini.isConnected
        /\ e.g.isSetupComplete = gemini.isSetupComplete
        /\ e.g.retryCount = gemini.retryCount
        /\ e.g.ws = gemini.ws /\ e.sock = socket
        /\ e.tm.retry = timers.retry

\* The close event decides, whether or not an error event came before it.
CloseDecides ==
    obs'.lastOp = "onclose" =>
        LET names == [i \in DOMAIN obs'.fired |-> obs'.fired[i].name]
        IN  /\ Len(names) = 1
            /\ IF gemini.isConnected
               THEN /\ names = <<"onDisconnected">>
                    /\ timers'.retry = timers.retry
                    /\ gemini'.retryCount = gemini.retryCount
               ELSE IF JsLess(gemini.retryCount, gemini.maxRetries)
               THEN /\ names = <<"onRetry">>
                    /\ Len(timers'.retry) = Len(timers.retry) + 1
                    /\ gemini'.retryCount = gemini.retryCount + 1
               ELSE /\ names = <<"onError">>
                    /\ obs'.fired[1].tag = "ConnectionFailed"
                    /\ timers'.retry = timers.retry
            /\ ~timers'.timeout
            /\ ~gemini'.isConnected /\ ~gemini'.isSetupComplete

\* C36: A transport error event by itself triggers no retry, no
\* onDisconnected and no onError and leaves isConnected, isSetupComplete and
\* retryCount unchanged; the close event that follows decides between the
\* retry path and the disconnect path, and an attempt that reports an error
\* before opening still ends in the retry path.
C36_ErrorLeavesDecisionToClose == []ErrorAlone /\ [][CloseDecides]_vars

C36_Witness ==
    /\ obs.lastOp = "onclose" /\ obs.errored
    /\ hist.pure /\ hist.attempts = 2
    /\ FiredNames = {"onRetry"}
    /\ Len(timers.retry) = 1 /\ ~timers.timeout

TimerOnlyWhileConnecting == timers.timeout => socket.readyState = "CONNECTING"

TimeoutStep ==
    obs'.lastOp = "timeout" =>
        /\ socket.readyState = "CONNECTING"
        /\ gemini'.ws = "null"
        /\ socket' = NoSocket
        /\ ~timers'.timeout
        /\ ~gemini'.connectionTimeout
        /\ ~obs'.attempted
        /\ gemini'.isConnected = gemini.isConnected
        /\ gemini'.isSetupComplete = gemini.isSetupComplete
        /\ IF JsLess(gemini.retryCount, gemini.maxRetries)
           THEN /\ gemini'.retryCount = gemini.retryCount + 1
                /\ timers'.retry = Append(timers.retry, 1000 * 2 ^ (gemini.retryCount + 1))
                /\ obs'.fired = <<Note("onRetry", "", gemini.retryCount + 1, gemini.maxRetries,
                                       "Connection timeout")>>
           ELSE /\ gemini'.retryCount = gemini.retryCount
                /\ timers'.retry = timers.retry
                /\ obs'.fired = <<Note("onError", "ConnectionFailed", 0, gemini.maxRetries,
                                       "Connection timeout")>>

\* C18: When the establishment timer of an attempt expires the transport has
\* not opened; the expiry tears the transport down (ws cleared) and takes the
\* retry path with the backoff and retryCount accounting of any other
\* establishment failure.  Once the transport has opened no establishment
\* timer is pending.
C18_TimeoutFunnelsIntoRetry == []TimerOnlyWhileConnecting /\ [][TimeoutStep]_vars

C18_Witness ==
    /\ obs.lastOp = "timeout"
    /\ gemini.ws = "null"
    /\ gemini.retryCount = 2
    /\ timers.retry = <<4000>>
    /\ "onRetry" \in FiredNames

\* Samples i..j of the run since the detector was last reset are all above
\* (below) the threshold.
AllAbove(i, j) == \A k \in i..j : Above(vhist.samples[k])

AllBelow(i, j) == \A k \in i..j : ~Above(vhist.samples[k])

InSeq(x, q) == \E k \in DOMAIN q : q[k] = x

Occurrences(x, q) == Cardinality({k \in DOMAIN q : q[k] = x})

\* C15: VAD hysteresis.  From the reset state, N-1 samples above the
\* threshold followed by one below fire no speech-start and leave the counter
\* at zero; N samples above fire speech-start exactly once, on the Nth.
C15_VadHysteresis ==
    LET N == VAD_CONSECUTIVE_FRAMES
        n == Len(vhist.samples)
    IN  /\ (n = N /\ AllAbove(1, N - 1) /\ ~Above(vhist.samples[N])) =>
               (vhist.starts = <<>> /\ audio.vadFramesAboveThreshold = 0 /\ ~audio.isSpeaking)
        /\ (n < N /\ AllAbove(1, n)) => vhist.starts = <<>>
        /\ (n >= N /\ AllAbove(1, N)) =>
               /\ Occurrences(N, vhist.starts) = 1
               /\ \A k \in 1..(N - 1) : ~InSeq(k, vhist.starts)
        /\ (obs.lastOp = "audioSample" /\ n = N /\ AllAbove(1, N)) =>
               /\ CountFired("onSpeechStart", "") = 1
               /\ audio.isSpeaking

C15_Witness ==
    /\ Len(vhist.samples) = VAD_CONSECUTIVE_FRAMES
    /\ AllAbove(1, VAD_CONSECUTIVE_FRAMES)
    /\ vhist.starts = <<VAD_CONSECUTIVE_FRAMES>>
    /\ "onSpeechStart" \in FiredNames

\* C16: VAD symmetry.  After a speech-start (counter = N), N consecutive
\* samples below the threshold fire exactly one speech-end, on the Nth of
\* them, and none earlier.
C16_VadSymmetry ==
    LET N == VAD_CONSECUTIVE_FRAMES
        n == Len(vhist.samples)
    IN  \A i \in 1..n :
            InSeq(i, vhist.starts) =>
                \A k \in 1..N :
                    (i + k <= n /\ AllBelow(i + 1, i + k)) =>
                        /\ (k < N => ~InSeq(i + k, vhist.ends))
                        /\ (k = N => Occurrences(i + k, vhist.ends) = 1)
                        /\ ((obs.lastOp = "audioSample" /\ i + k = n) =>
                               /\ audio.vadFramesAboveThreshold = N - k
                               /\ CountFired("onSpeechEnd", "") = (IF k = N THEN 1 ELSE 0))

C16_Witness ==
    /\ Len(vhist.samples) = 2 * VAD_CONSECUTIVE_FRAMES
    /\ vhist.starts = <<VAD_CONSECUTIVE_FRAMES>>
    /\ AllBelow(VAD_CONSECUTIVE_FRAMES + 1, 2 * VAD_CONSECUTIVE_FRAMES)
    /\ vhist.ends = <<2 * VAD_CONSECUTIVE_FRAMES>>
    /\ "onSpeechEnd" \in FiredNames

VadInv ==
    /\ audio.vadFramesAboveThreshold >= 0
    /\ (audio.isSpeaking => audio.vadFramesAboveThreshold > 0)

VadStep ==
    /\ (~audio.isSpeaking /\ audio'.isSpeaking) =>
           /\ obs'.lastOp = "audioSample"
           /\ audio'.vadFramesAboveThreshold >= VAD_CONSECUTIVE_FRAMES
           /\ audio'.vadFramesAboveThreshold = audio.vadFramesAboveThreshold + 1
    /\ (audio.isSpeaking /\ ~audio'.isSpeaking) =>
           \/ obs'.lastOp = "stopInput"
           \/ /\ obs'.lastOp = "audioSample"
              /\ audio.vadFramesAboveThreshold = 1
              /\ audio'.vadFramesAboveThreshold = 0

\* C17: VadState invariant.  The counter is never negative and isSpeaking is
\* true only while it is positive; isSpeaking becomes true only on a sample
\* that brings the counter to the consecutive-frame minimum, and becomes
\* false only by stopInput or on a sample that decrements the counter to
\* exactly zero.
C17_VadStateInvariant == []VadInv /\ [][VadStep]_vars

C17_Witness ==
    /\ obs.lastOp = "audioSample"
    /\ vhist.ends # <<>>
    /\ ~audio.isSpeaking
    /\ audio.vadFramesAboveThreshold = 0
    /\ Len(vhist.samples) = MaxSamples

\* The samples above the threshold less the samples below it among the
\* first j samples since the detector was reset.
Balance(j) ==
    Cardinality({k \in 1..j : Above(vhist.samples[k])})
    - Cardinality({k \in 1..j : ~Above(vhist.samples[k])})

DecayStep ==
    (obs'.lastOp = "audioSample" /\ audio.isSpeaking) =>
        LET rms == vhist'.samples[Len(vhist'.samples)]
            ended == "onSpeechEnd" \in {obs'.fired[i].name : i \in DOMAIN obs'.fired}
        IN  IF Above(rms)
            THEN /\ audio'.vadFramesAboveThreshold = audio.vadFramesAboveThreshold + 1
                 /\ audio'.isSpeaking /\ ~ended
            ELSE /\ audio'.vadFramesAboveThreshold = audio.vadFramesAboveThreshold - 1
                 /\ ended = (audio'.vadFramesAboveThreshold = 0)
                 /\ audio'.isSpeaking = ~ended

DecayInv ==
    LET N == VAD_CONSECUTIVE_FRAMES
        n == Len(vhist.samples)
    IN  /\ \A K \in N..n :
              (AllAbove(1, K) /\ AllBelow(K + 1, n)) =>
                  /\ (n - K < K => vhist.ends = <<>> /\ audio.isSpeaking
                                   /\ audio.vadFramesAboveThreshold = K - (n - K))
                  /\ (n - K = K => vhist.ends = <<n>> /\ ~audio.isSpeaking)
        /\ (n >= N /\ AllAbove(1, N)) =>
              /\ (vhist.ends = <<>> =>
                     audio.vadFramesAboveThreshold = Balance(n) /\ Balance(n) > 0)
              /\ (vhist.ends # <<>> =>
                     /\ Balance(vhist.ends[1]) = 0
                     /\ \A j \in N..(vhist.ends[1] - 1) : Balance(j) > 0)

\* C37: Speech-end decay.  While speaking, a sample above the threshold
\* increments the counter, without a cap, and a sample below it decrements
\* the counter by one; speech-end fires exactly on the sample that brings the
\* counter to zero.  So after K >= N samples above the threshold K samples
\* below it, consecutive or not, are needed before speech-end fires.
C37_SpeechEndDecay == []DecayInv /\ [][DecayStep]_vars

C37_Witness ==
    /\ obs.lastOp = "audioSample"
    /\ Len(vhist.samples) = 2 * (VAD_CONSECUTIVE_FRAMES + 1)
    /\ AllAbove(1, VAD_CONSECUTIVE_FRAMES + 1)
    /\ AllBelow(VAD_CONSECUTIVE_FRAMES + 2, 2 * (VAD_CONSECUTIVE_FRAMES + 1))
    /\ vhist.starts = <<VAD_CONSECUTIVE_FRAMES>>
    /\ vhist.ends = <<2 * (VAD_CONSECUTIVE_FRAMES + 1)>>
    /\ "onSpeechEnd" \in FiredNames

\* C38: Over any sequence of energy samples and stopInput / startInput calls
\* onSpeechStart and onSpeechEnd alternate, beginning with onSpeechStart: a
\* speech-start fires only when the last speech event was a speech-end (or
\* there was none), and a speech-end only when it was a speech-start.
C38_SpeechEventsAlternate ==
    [][LET names == {obs'.fired[i].name : i \in DOMAIN obs'.fired}
       IN  /\ ("onSpeechStart" \in names => ~phist.speechOpen)
           /\ ("onSpeechEnd" \in names => phist.speechOpen)]_vars

\* C39: After stopInput() the AudioManager holds no capture stream and
\* delivers no chunk until startInput() is called again, also when an earlier
\* startInput() was still waiting for the device at the stop: the reaction
\* that follows a stopInput(), unless it is a startInput() call, acquires no
\* stream and delivers no chunk (the AudioManager being initialised).  And a
\* stream is never acquired while one is held.
C39_StoppedStaysStopped ==
    [][/\ (audio.inputContext /\ obs.lastOp = "stopInput" /\ obs'.lastOp # "startInput") =>
              /\ ~audio'.mediaStream
              /\ ~audio'.processorNode
              /\ obs'.lastOp # "audioSample"
       /\ (obs'.lastOp = "getUserMedia" /\ audio.mediaStream) =>
              \E i \in DOMAIN obs'.fired : obs'.fired[i].s = "NotAllowedError"]_vars

\* C40: After App.stop() the session is torn down and stays so until the next
\* start(): while the App is not running no socket is open or connecting, no
\* capture is active or being acquired into, no chunk is rendering and no
\* session timer is pending.
C40_StoppedSessionTornDown ==
    ~app.isRunning =>
        /\ socket.readyState \notin {"CONNECTING", "OPEN"}
        /\ ~timers.timeout
        /\ ~audio.mediaStream /\ ~audio.processorNode
        /\ speaker.rendering = {}
        /\ ~app.sessionTimeout

TypeOK ==
    /\ gemini.ws \in {"null", "ws"}
    /\ (timers.timeout => gemini.connectionTimeout)
    /\ (timers.timeout => gemini.ws # "null")
    /\ (gemini.ws = "null" <=> socket.readyState = "NONE")
====
